---- MODULE Spec2Model ----
(***************************************************************************)
(* Signal-to-order execution pipeline of the copy-trading bot:             *)
(*   monitor_service.py          pollers, trade queue, queue consumer      *)
(*   trade_execution_service.py  validator, pricing, sizing, submission    *)
(*   rate_limiter.py             global token bucket                       *)
(*                                                                         *)
(* The specifications share the variables; each one moves its own part of  *)
(* the state and leaves the rest alone:                                    *)
(*   Spec          pollers + queue + consumer                              *)
(*   SpecShutdown  the same with MonitorService.stop                       *)
(*   SpecRL        RateLimiter.acquire with concurrent callers             *)
(*   SpecPrice     _calculate_price_with_premium on a milli-price grid     *)
(*   SpecSizer     _calculate_order_params (BUY), exact rationals          *)
(*   SpecLifecycle _manage_order_lifecycle for one accepted order          *)
(*   SpecIsolation the pollers when one trader's fetches always fail       *)
(*   SpecPlace     the guards of _place_gtc_order, fixed-point amounts     *)
(*   SpecSpend     consecutive BUY signals sized from the balance cache    *)
(*   SpecGate      the requests sent to the Data API                       *)
(*   SpecSubmit    _place_gtc_order outcomes and what execute_copy_trade   *)
(*                 records                                                 *)
(*   SpecConsumer  the queue consumer under fair scheduling                *)
(*   SpecSellSizer _calculate_order_params (SELL), exact rationals         *)
(*   SpecCopyTrade execute_copy_trade from the pricing step on             *)
(*   SpecRLFair    RateLimiter.acquire under fair scheduling               *)
(*   SpecPacing    RateLimiter.acquire with the return times kept          *)
(***************************************************************************)
EXTENDS Integers, Sequences, FiniteSets, TLC

(***************************************************************************)
(* Bounds of the model                                                     *)
(***************************************************************************)
StartTime == 300
MaxTime == 410
TickStep == 100

Traders == {"A", "B"}
Hashes == {"h1", "h2"}
\* block time of each transaction (seconds)
TsOf(h) == IF h = "h1" THEN 50 ELSE 300
NoHash == "none"

(***************************************************************************)
(* Program constants                                                       *)
(***************************************************************************)
aggregation_window == 300
signal_expiry == 60

VARIABLES
    now,                \* wall clock, seconds (time.time())
    running,            \* MonitorService.running
    stopped,            \* stop() has been called (sentinel enqueued)
    processed_hashes,   \* MonitorService.processed_hashes
    last_fetch_time,    \* MonitorService.last_fetch_time: trader -> timestamp
    trade_queue,        \* MonitorService.trade_queue (asyncio.Queue)
    trade_processing_lock, \* MonitorService.trade_processing_lock
    pollPc,             \* position of each monitor_trader task
    consPc,             \* position of the process_trade_queue task
    inflight,           \* packages between dequeue and return of execute_trade
    signal,             \* TradeSignal of the package being executed
    processed_signals,  \* TradeExecutionService.processed_signals
    orders_cache,       \* TradeExecutionService.orders_cache, by order id
    enqLog,             \* history: hashes in the order they were enqueued
    execLog,            \* history: hashes in the order execute_trade was entered
    submitLog,          \* history: hashes in the order post_order was called
    replayed            \* history: hashes skipped at line 335 after being enqueued

pipeVars == <<now, running, stopped, processed_hashes, last_fetch_time,
              trade_queue, trade_processing_lock, pollPc, consPc,
              inflight, signal, processed_signals, orders_cache,
              enqLog, execLog, submitLog, replayed>>

VARIABLES
    clock,              \* time.time() as the rate limiter reads it, in ticks
    tokens,             \* RateLimiter.tokens
    last_refill,        \* RateLimiter.last_refill
    lock,               \* RateLimiter.lock: the caller holding it, or NoCaller
    lockWaiters,        \* callers suspended in lock.acquire(), in arrival order
    callPc,             \* position of each caller of acquire
    req,                \* the 'tokens' argument of each caller's pending call
    wakeAt,             \* clock value at which each caller's sleep is over
    lastReturn,         \* history: the acquire call that returned last (k flips at each return)
    returnTimes,        \* history: clock values of the last MaxInterval ticks at which acquire(1) calls returned
    recordTimes         \* history: whether returnTimes is kept in this specification

rlVars == <<clock, tokens, last_refill, lock, lockWaiters, callPc, req, wakeAt,
            lastReturn, returnTimes, recordTimes>>

VARIABLES
    priceArgs,          \* arguments of _calculate_price_with_premium
    priceResult         \* its return value

priceVars == <<priceArgs, priceResult>>

VARIABLES
    sizerArgs,          \* inputs of _calculate_order_params (BUY)
    sizerResult         \* its return value

sizerVars == <<sizerArgs, sizerResult>>

VARIABLES
    lcNow,              \* time.time() as the lifecycle task reads it
    lcPc,               \* position of the lifecycle task
    lcWake,             \* time at which its asyncio.sleep is over
    start_time,         \* start_time of _manage_order_lifecycle
    order_record,       \* orders_cache[order_id]: status and expires_at
    cancels,            \* calls of client.cancel for the order
    refreshes,          \* calls of _update_positions_after_trade
    sincePoll,          \* those made since the last status query
    lcExit              \* how the polling loop was left

lcVars == <<lcNow, lcPc, lcWake, start_time, order_record, cancels, refreshes,
            sincePoll, lcExit>>

VARIABLES
    placeArgs,          \* order_params handed to _place_gtc_order
    placeResult         \* what _place_gtc_order did with them

placeVars == <<placeArgs, placeResult>>

VARIABLES
    balance_cache,      \* our USDC balance in memory_monitor's balance cache
    walletMode,         \* TradeExecutionService.wallet_type
    sizedOrders         \* sizes of the BUY orders sized since the cache was written

spendVars == <<balance_cache, walletMode, sizedOrders>>

VARIABLES
    acquired,         \* per caller: acquire() calls returned since its last request
    requests          \* the Data API requests sent, in order

gateVars == <<acquired, requests>>

VARIABLES
    attempts,           \* history: the calls of _place_gtc_order and how they ended
    lifecycle_tasks     \* signals a _manage_order_lifecycle task was created for

submitVars == <<attempts, lifecycle_tasks>>

VARIABLES
    sellArgs,           \* inputs of _calculate_order_params (SELL)
    sellResult          \* its return value

sellVars == <<sellArgs, sellResult>>

VARIABLES
    copyPc,             \* where execute_copy_trade is, from the pricing step on
    copyCalls,          \* history: the sizer and submitter calls it made
    copyOrders          \* the OrderRecords it cached

copyVars == <<copyPc, copyCalls, copyOrders>>

vars == <<pipeVars, rlVars, priceVars, sizerVars, lcVars, placeVars, spendVars, gateVars, submitVars, sellVars, copyVars>>

\* what the pipeline leaves alone
nonPipeVars == <<rlVars, priceVars, sizerVars, lcVars, placeVars, spendVars, gateVars, submitVars, sellVars, copyVars>>

(***************************************************************************)
(* Activity feed records (Market Data API, external).  A record carries    *)
(* the fields the poller reads.  price = -1 stands for a JSON null.        *)
(***************************************************************************)
Kinds == {
    [type |-> "TRADE",  side |-> "BUY",  asset |-> "T1", usdcSize |-> 10, price |-> 500],
    [type |-> "TRADE",  side |-> "sell", asset |-> "",   usdcSize |-> 10, price |-> 500],
    [type |-> "TRADE",  side |-> "BUY",  asset |-> "T1", usdcSize |-> 10, price |-> -1],
    [type |-> "TRADE",  side |-> "BUY",  asset |-> "T1", usdcSize |-> 0,  price |-> -1],
    [type |-> "REDEEM", side |-> "",     asset |-> "T1", usdcSize |-> 10, price |-> 500] }

Activities ==
    { [kind |-> k, transactionHash |-> h, timestamp |-> TsOf(h)] :
        k \in Kinds, h \in Hashes }

\* well-formed trade events
GoodActivities ==
    { a \in Activities : /\ a.kind.type = "TRADE"
                         /\ a.kind.asset # ""
                         /\ a.kind.price > 0 }

\* One response of the activity feed: nothing, a single event of any kind,
\* or two well-formed trade events in any order (repeats included).
Batches ==
    {<<>>} \cup { <<a>> : a \in Activities }
           \cup { <<a, b>> : a \in GoodActivities, b \in GoodActivities }

Sentinel == [stop |-> TRUE]

NoSignal == [original_tx_hash |-> NoHash]

(***************************************************************************)
(* Helpers                                                                 *)
(***************************************************************************)
Max(a, b) == IF a >= b THEN a ELSE b
Min(a, b) == IF a <= b THEN a ELSE b

\* str.upper() on the side strings the feed can carry
Upper(s) ==
    CASE s = "buy"  -> "BUY"
      [] s = "sell" -> "SELL"
      [] OTHER      -> s

RECURSIVE IsSubSeq(_, _)
IsSubSeq(s, t) ==
    IF s = <<>> THEN TRUE
    ELSE IF t = <<>> THEN FALSE
    ELSE IF Head(s) = Head(t) THEN IsSubSeq(Tail(s), Tail(t))
    ELSE IsSubSeq(s, Tail(t))

Count(s, x) == Cardinality({ i \in DOMAIN s : s[i] = x })

(***************************************************************************)
(* Poller: MonitorService.fetch_trader_activities / _process_trade         *)
(***************************************************************************)

\* line 335: tx_hash in self.processed_hashes (skipped variant: no hash dedup)
AlreadyProcessedNoDedup(tx_hash, ph) == FALSE
AlreadyProcessed(tx_hash, ph) == tx_hash \in ph

\* _process_trade: 'sizeUsd': usdcSize or (size * price); the feed records
\* here carry no 'size', so the fallback is 0 * price, a TypeError on null.
ProcessTradeRaises(a) == a.kind.usdcSize = 0 /\ a.kind.price = -1

TradePackage(a, trader, t) ==
    [ trader          |-> trader,
      tokenId         |-> a.kind.asset,
      side            |-> Upper(a.kind.side),
      sizeUsd         |-> a.kind.usdcSize,
      price           |-> a.kind.price,
      transactionHash |-> a.transactionHash,
      timestamp       |-> a.timestamp * 1000,
      enqAt           |-> t ]          \* history: time the poller detected it

\* asyncio.Queue.put: append at the tail
QueuePut(q, pkg) == Append(q, pkg)

\* _process_trade applied to poller state st = [ph, lft, q, log, rep, raised]
ProcessTrade(st, a, trader, t) ==
    IF ProcessTradeRaises(a) THEN [st EXCEPT !.raised = TRUE]
    ELSE IF Upper(a.kind.side) \in {"BUY", "SELL"}
         THEN [st EXCEPT !.q = QueuePut(@, TradePackage(a, trader, t)),
                         !.log = Append(@, a.transactionHash)]
         ELSE st

\* lines 340-341: activity_time <= last_time (variant: the watermark is not
\* consulted)
SkippedBeforeLastNever(activity_time, last_time) == FALSE
SkippedBeforeLast(activity_time, last_time) == activity_time <= last_time

\* body of the for loop, lines 321-353, for one activity
ProcessActivity(st, a, trader, t) ==
    IF a.kind.type # "TRADE" THEN st
    ELSE IF a.timestamp < t - aggregation_window THEN st
    ELSE IF AlreadyProcessed(a.transactionHash, st.ph)
         THEN IF Count(st.log, a.transactionHash) > 0
              THEN [st EXCEPT !.rep = @ \cup {a.transactionHash}]
              ELSE st
    ELSE IF SkippedBeforeLast(a.timestamp, st.lft[trader]) THEN st
    ELSE LET r == ProcessTrade(st, a, trader, t) IN
         IF r.raised THEN r
         ELSE [r EXCEPT !.ph = @ \cup {a.transactionHash},
                        !.lft[trader] = Max(@, a.timestamp)]

\* the for loop: activities in feed order; an exception leaves the loop
RECURSIVE ProcessActivities(_, _, _, _)
ProcessActivities(st, acts, trader, t) ==
    IF acts = <<>> \/ st.raised THEN st
    ELSE ProcessActivities(ProcessActivity(st, Head(acts), trader, t),
                           Tail(acts), trader, t)

(***************************************************************************)
(* Validator: TradeExecutionService._validate_signal                       *)
(***************************************************************************)

\* lines 430-433 (variant: the freshness check left out)
SignalExpiredNever(sig, t) == FALSE
SignalExpired(sig, t) == t - sig.detected_at > signal_expiry

\* the reason _validate_signal logs, "ok" when it returns True
ValidateReason(sig, t, processed) ==
    IF sig.original_tx_hash \in processed THEN "duplicate"
    ELSE IF SignalExpired(sig, t) THEN "expired"
    ELSE IF sig.token_id = "" \/ sig.side = "" \/ sig.amount_usdc <= 0 THEN "invalid"
    ELSE "ok"

ValidateSignal(sig, t, processed) == ValidateReason(sig, t, processed) = "ok"

(***************************************************************************)
(* Consumer: MonitorService.process_trade_queue / execute_trade            *)
(***************************************************************************)

\* lines 63-72: '{price:.2f}' raises TypeError on a null price
LoggingRaises(pkg) == pkg.price = -1

\* execute_trade line 186: detected_at=time.time()
DetectedAt(pkg, t) == t

MakeSignal(pkg, t) ==
    [ source_address   |-> pkg.trader,
      original_tx_hash |-> pkg.transactionHash,
      token_id         |-> pkg.tokenId,
      side             |-> pkg.side,
      amount_usdc      |-> pkg.sizeUsd,
      price            |-> pkg.price,
      detected_at      |-> DetectedAt(pkg, t),
      enqAt            |-> pkg.enqAt,     \* history
      dequeuedAt       |-> t,             \* history
      validatedAt      |-> -1 ]           \* history: -1 before validation

\* line 49: the consumer awaits the next package only when it is at the top
\* of its loop (variant: it does not wait for execute_trade to return)
ConsumerReadyAlways == consPc # "stopped"
ConsumerReady == consPc = "get"

\* asyncio.Queue.get: the head of the queue (variant: the tail)
QueueTakeLast(q) == [pkg |-> q[Len(q)], rest |-> SubSeq(q, 1, Len(q) - 1)]
QueueTake(q) == [pkg |-> Head(q), rest |-> Tail(q)]

(***************************************************************************)
(* Poller tasks: MonitorService.start / monitor_trader                     *)
(***************************************************************************)

\* start, lines 123-133: one task per trader is created before any of them
\* is awaited (variant: the traders are monitored one after the other, the
\* second waits for the first monitor_trader to return)
StartTasksOneByOne ==
    [t \in Traders |-> IF t = "A" THEN "loop" ELSE "waiting"]
StartTasks == [t \in Traders |-> "loop"]

\* where monitor_trader goes after fetch_trader_activities: lines 361-376 log
\* a 404, another status, a timeout or an exception and return, a 429 sleeps
\* 5 seconds first, and lines 287-297 loop (variant: anything but a processed
\* 200 response ends the task)
AfterFetchOkOnly(outcome) == IF outcome = "ok" THEN "loop" ELSE "done"
AfterFetch(outcome) == IF outcome = "429" THEN "backoff" ELSE "loop"

(***************************************************************************)
(* Pipeline: initial state (after MonitorService.start)                    *)
(***************************************************************************)
InitPipe ==
    /\ now = StartTime
    /\ running = TRUE
    /\ stopped = FALSE
    /\ processed_hashes = {}
    /\ last_fetch_time = [t \in Traders |-> 0]
    /\ trade_queue = <<>>
    /\ trade_processing_lock = FALSE
    /\ pollPc = StartTasks
    /\ consPc = "get"
    /\ inflight = {}
    /\ signal = NoSignal
    /\ processed_signals = {}
    /\ orders_cache = <<>>
    /\ enqLog = <<>>
    /\ execLog = <<>>
    /\ submitLog = <<>>
    /\ replayed = {}

pollerVars == <<processed_hashes, last_fetch_time, pollPc, enqLog, replayed>>
consumerVars == <<trade_processing_lock, consPc, inflight, signal,
                  processed_signals, orders_cache, execLog, submitLog>>

\* time.time() advances
Tick ==
    /\ now + TickStep <= MaxTime
    /\ now' = now + TickStep
    /\ UNCHANGED <<running, stopped, trade_queue, pollerVars, consumerVars>>
    /\ UNCHANGED nonPipeVars

(***************************************************************************)
(* monitor_trader, one task per trader                                     *)
(***************************************************************************)

\* line 287: while self.running; then lines 302-308, where the task is
\* suspended in the rate limiter and in the HTTP request ("fetch")
PollLoop(t) ==
    /\ pollPc[t] = "loop"
    /\ pollPc' = [pollPc EXCEPT ![t] = IF running THEN "fetch" ELSE "done"]
    /\ UNCHANGED <<now, running, stopped, trade_queue, processed_hashes,
                   last_fetch_time, enqLog, replayed, consumerVars>>
    /\ UNCHANGED nonPipeVars

\* lines 309-359: status 200, the whole batch is processed without
\* suspension; an exception of _process_trade is caught at line 371
Fetch200(t) ==
    /\ pollPc[t] = "fetch"
    /\ \E acts \in Batches :
         LET st0 == [ph |-> processed_hashes, lft |-> last_fetch_time,
                     q |-> trade_queue, log |-> enqLog, rep |-> replayed,
                     raised |-> FALSE]
             st  == ProcessActivities(st0, acts, t, now)
         IN /\ processed_hashes' = st.ph
            /\ last_fetch_time' = st.lft
            /\ trade_queue' = st.q
            /\ enqLog' = st.log
            /\ replayed' = st.rep
            /\ pollPc' = [pollPc EXCEPT
                   ![t] = AfterFetch(IF st.raised THEN "exception" ELSE "ok")]
    /\ UNCHANGED <<now, running, stopped, consumerVars>>
    /\ UNCHANGED nonPipeVars

\* lines 363-365: status 429; the task is suspended in asyncio.sleep(5)
Fetch429(t) ==
    /\ pollPc[t] = "fetch"
    /\ pollPc' = [pollPc EXCEPT ![t] = AfterFetch("429")]
    /\ UNCHANGED <<now, running, stopped, trade_queue, processed_hashes,
                   last_fetch_time, enqLog, replayed, consumerVars>>
    /\ UNCHANGED nonPipeVars

\* lines 361-362, 366-376: 404, another status, a timeout or an exception
FetchFailed(t) ==
    /\ pollPc[t] = "fetch"
    /\ pollPc' = [pollPc EXCEPT ![t] = AfterFetch("failed")]
    /\ UNCHANGED <<now, running, stopped, trade_queue, processed_hashes,
                   last_fetch_time, enqLog, replayed, consumerVars>>
    /\ UNCHANGED nonPipeVars

\* line 365: the sleep after a 429 is over; fetch_trader_activities returns
Backoff(t) ==
    /\ pollPc[t] = "backoff"
    /\ pollPc' = [pollPc EXCEPT ![t] = "loop"]
    /\ UNCHANGED <<now, running, stopped, trade_queue, processed_hashes,
                   last_fetch_time, enqLog, replayed, consumerVars>>
    /\ UNCHANGED nonPipeVars

\* MonitorService.stop, lines 271-275
Stop ==
    /\ ~stopped
    /\ running' = FALSE
    /\ stopped' = TRUE
    /\ trade_queue' = Append(trade_queue, Sentinel)
    /\ UNCHANGED <<now, pollerVars, consumerVars>>
    /\ UNCHANGED nonPipeVars

(***************************************************************************)
(* process_trade_queue, the single consumer task                           *)
(***************************************************************************)
IsSentinel(pkg) == "stop" \in DOMAIN pkg

\* lines 49-52: the stop signal ends the consumer
DequeueSentinel ==
    /\ ConsumerReady
    /\ trade_queue # <<>>
    /\ IsSentinel(QueueTake(trade_queue).pkg)
    /\ trade_queue' = QueueTake(trade_queue).rest
    /\ consPc' = "stopped"
    /\ UNCHANGED <<now, running, stopped, pollerVars, trade_processing_lock,
                   inflight, signal, processed_signals, orders_cache,
                   execLog, submitLog>>
    /\ UNCHANGED nonPipeVars

\* lines 94-98: the exception is caught inside the while loop, which goes on
\* (variant: it leaves the loop and ends the task)
AfterLoggingRaisesEnds == "stopped"
AfterLoggingRaises == "get"

\* lines 49-72, 94-98: logging the package raises; the package is dropped
DequeueDropped ==
    /\ ConsumerReady
    /\ trade_queue # <<>>
    /\ LET pkg == QueueTake(trade_queue).pkg IN
         /\ ~IsSentinel(pkg)
         /\ LoggingRaises(pkg)
    /\ trade_queue' = QueueTake(trade_queue).rest
    /\ trade_processing_lock' = FALSE
    /\ consPc' = AfterLoggingRaises
    /\ UNCHANGED <<now, running, stopped, pollerVars, inflight, signal,
                   processed_signals, orders_cache, execLog, submitLog>>
    /\ UNCHANGED nonPipeVars

\* lines 49-81 and execute_trade lines 156-192: the package is handed to
\* execute_trade, which builds the TradeSignal
Dequeue ==
    /\ ConsumerReady
    /\ trade_queue # <<>>
    /\ LET pkg == QueueTake(trade_queue).pkg IN
         /\ ~IsSentinel(pkg)
         /\ ~LoggingRaises(pkg)
         /\ signal' = MakeSignal(pkg, now)
         /\ inflight' = inflight \cup {pkg.transactionHash}
         /\ execLog' = Append(execLog, pkg.transactionHash)
    /\ trade_queue' = QueueTake(trade_queue).rest
    /\ trade_processing_lock' = TRUE
    /\ consPc' = "validate"
    /\ UNCHANGED <<now, running, stopped, pollerVars, processed_signals,
                   orders_cache, submitLog>>
    /\ UNCHANGED nonPipeVars

\* execute_trade returns (or raises): lines 83-92
Finished ==
    /\ trade_processing_lock' = FALSE
    /\ inflight' = inflight \ {signal.original_tx_hash}
    /\ signal' = NoSignal
    /\ consPc' = "get"

\* execute_copy_trade lines 207-208: _validate_signal is evaluated
Validate ==
    /\ consPc = "validate"
    /\ signal' = [signal EXCEPT !.validatedAt = now]
    /\ consPc' = IF ValidateSignal(signal, now, processed_signals)
                 THEN "price" ELSE "rejected"
    /\ UNCHANGED <<now, running, stopped, trade_queue, pollerVars,
                   trade_processing_lock, inflight,
                   processed_signals, orders_cache, execLog, submitLog>>
    /\ UNCHANGED nonPipeVars

\* line 208: return False; execute_trade logs the skip and returns
Rejected ==
    /\ consPc = "rejected"
    /\ Finished
    /\ UNCHANGED <<now, running, stopped, trade_queue, pollerVars,
                   processed_signals, orders_cache, execLog, submitLog>>
    /\ UNCHANGED nonPipeVars

\* lines 211-262: position checks and _get_current_price; ok = FALSE when
\* a check skips the signal or no price is available
Price(ok) ==
    /\ consPc = "price"
    /\ IF ok
       THEN /\ consPc' = "size"
            /\ UNCHANGED <<signal, trade_processing_lock, inflight>>
       ELSE Finished
    /\ UNCHANGED <<now, running, stopped, trade_queue, pollerVars,
                   processed_signals, orders_cache, execLog, submitLog>>
    /\ UNCHANGED nonPipeVars

\* lines 266-325: _calculate_order_params; ok = FALSE when it returns no order
Size(ok) ==
    /\ consPc = "size"
    /\ IF ok
       THEN /\ consPc' = "submit"
            /\ UNCHANGED <<signal, trade_processing_lock, inflight>>
       ELSE Finished
    /\ UNCHANGED <<now, running, stopped, trade_queue, pollerVars,
                   processed_signals, orders_cache, execLog, submitLog>>
    /\ UNCHANGED nonPipeVars

\* _place_gtc_order lines 1461-1465: one client.post_order call per order
\* (variant: the call is repeated once)
PostOrderTwice(log, h) == Append(Append(log, h), h)
PostOrder(log, h) == Append(log, h)

\* _place_gtc_order lines 1318-1367, 1438-1440: refused before post_order
SubmitRefused ==
    /\ consPc = "submit"
    /\ Finished
    /\ UNCHANGED <<now, running, stopped, trade_queue, pollerVars,
                   processed_signals, orders_cache, execLog, submitLog>>
    /\ UNCHANGED nonPipeVars

\* lines 1461-1476, 1529-1531: post_order is called and fails or is rejected
SubmitFailed ==
    /\ consPc = "submit"
    /\ submitLog' = PostOrder(submitLog, signal.original_tx_hash)
    /\ Finished
    /\ UNCHANGED <<now, running, stopped, trade_queue, pollerVars,
                   processed_signals, orders_cache, execLog>>
    /\ UNCHANGED nonPipeVars

\* lines 1461-1528 and execute_copy_trade lines 393-400: post_order succeeds
SubmitOk ==
    /\ consPc = "submit"
    /\ submitLog' = PostOrder(submitLog, signal.original_tx_hash)
    /\ orders_cache' = Append(orders_cache,
                              [original_signal |-> signal.original_tx_hash,
                               side |-> signal.side,
                               status |-> "pending"])
    /\ processed_signals' = processed_signals \cup {signal.original_tx_hash}
    /\ Finished
    /\ UNCHANGED <<now, running, stopped, trade_queue, pollerVars, execLog>>
    /\ UNCHANGED nonPipeVars

(***************************************************************************)
(* RateLimiter (rate_limiter.py).  Time is counted in ticks; rate is in    *)
(* tokens per tick.  The limiter is a process-wide singleton; Callers are  *)
(* the tasks that call acquire concurrently.                               *)
(***************************************************************************)
rate == 1
capacity == 3
RLMaxTime == 6
\* the longest interval over which returned calls are counted, in ticks
MaxInterval == 3

Callers == {"p1", "p2"}
NoCaller == "nobody"

\* the values of the 'tokens' argument: every positive n up to capacity + 1
Amounts == 1 .. (capacity + 1)

\* asyncio.Lock.locked() (variant: the lock is never seen as held)
LockedNever(l) == FALSE
Locked(l) == l # NoCaller

\* lines 42-48: refill for the time elapsed since last_refill
Refill(tok, lr, t) ==
    LET elapsed == t - lr
        new_tokens == elapsed * rate
    IN IF new_tokens > 0
       THEN [tokens |-> Min(capacity, tok + new_tokens), last_refill |-> t]
       ELSE [tokens |-> tok, last_refill |-> lr]

\* lines 56-57, 67 (variant: the sleep takes no time)
WaitTicksNone(deficit) == 0
\* lines 56-57, 67: asyncio.sleep(deficit / rate) is over at the first tick
\* at which at least deficit / rate ticks have passed
WaitTicks(deficit) == (deficit + rate - 1) \div rate

\* history: the return times not older than MaxInterval at time t
Recent(times, t) ==
    LET InWindow(at) == at >= t - MaxInterval IN SelectSeq(times, InWindow)

\* no call has returned yet
NoReturn == [caller |-> NoCaller, n |-> 0, slept |-> FALSE, k |-> 0]

\* history: caller c's acquire(n) returns at time t
Returned(c, n, slept, t) ==
    /\ lastReturn' = [caller |-> c, n |-> n, slept |-> slept,
                      k |-> 1 - lastReturn.k]
    /\ returnTimes' = IF recordTimes /\ n = 1 THEN Append(returnTimes, t)
                      ELSE returnTimes

\* lines 42-67 for caller c asking for n tokens: from the lock acquisition to
\* the return at line 53 or to the suspension in asyncio.sleep at line 67
Section(c, n) ==
    LET r == Refill(tokens, last_refill, clock) IN
    /\ last_refill' = r.last_refill
    /\ UNCHANGED recordTimes
    /\ IF r.tokens >= n
       THEN /\ tokens' = r.tokens - n
            /\ callPc' = [callPc EXCEPT ![c] = "idle"]
            /\ req' = [req EXCEPT ![c] = 0]
            /\ lock' = NoCaller
            /\ Returned(c, n, FALSE, clock)
            /\ UNCHANGED wakeAt
       ELSE /\ tokens' = r.tokens
            /\ callPc' = [callPc EXCEPT ![c] = "sleeping"]
            /\ req' = [req EXCEPT ![c] = n]
            /\ lock' = c
            /\ wakeAt' = [wakeAt EXCEPT ![c] = clock + WaitTicks(n - r.tokens)]
            /\ UNCHANGED <<lastReturn, returnTimes>>

\* state after RateLimiter() at clock 0, no call in progress
InitLimiter ==
    /\ clock = 0
    /\ tokens = capacity
    /\ last_refill = 0
    /\ lock = NoCaller
    /\ lockWaiters = <<>>
    /\ callPc = [c \in Callers |-> "idle"]
    /\ req = [c \in Callers |-> 0]
    /\ wakeAt = [c \in Callers |-> 0]
    /\ lastReturn = NoReturn
    /\ returnTimes = <<>>
    /\ recordTimes = FALSE

\* the same state, with the return times kept
InitPacedLimiter ==
    /\ clock = 0
    /\ tokens = capacity
    /\ last_refill = 0
    /\ lock = NoCaller
    /\ lockWaiters = <<>>
    /\ callPc = [c \in Callers |-> "idle"]
    /\ req = [c \in Callers |-> 0]
    /\ wakeAt = [c \in Callers |-> 0]
    /\ lastReturn = NoReturn
    /\ returnTimes = <<>>
    /\ recordTimes = TRUE

\* acquire is called up to the horizon RLMaxTime
CallsArrive == clock < RLMaxTime

\* some caller is in asyncio.sleep and its wait_time has not passed
SleepPending == \E c \in Callers : callPc[c] = "sleeping" /\ clock < wakeAt[c]

\* time.time() advances: up to the horizon, and until the sleeps in progress
\* are over
RLTick ==
    /\ CallsArrive \/ SleepPending
    /\ clock' = clock + 1
    /\ returnTimes' = Recent(returnTimes, clock')
    /\ UNCHANGED <<tokens, last_refill, lock, lockWaiters, callPc, req, wakeAt,
                   lastReturn, recordTimes>>
    /\ UNCHANGED <<pipeVars, priceVars, sizerVars, lcVars, placeVars, spendVars, gateVars, submitVars, sellVars, copyVars>>

\* acquire(n), lines 38-41: the lock is free and nobody waits for it, so
\* 'async with self.lock' enters without suspension
Acquire(c, n) ==
    /\ CallsArrive
    /\ callPc[c] = "idle"
    /\ ~Locked(lock)
    /\ lockWaiters = <<>>
    /\ Section(c, n)
    /\ UNCHANGED <<clock, lockWaiters>>
    /\ UNCHANGED <<pipeVars, priceVars, sizerVars, lcVars, placeVars, spendVars, gateVars, submitVars, sellVars, copyVars>>

\* acquire(n), lines 38-41: the lock is held (or promised to an earlier
\* waiter), the caller is suspended in lock.acquire()
AcquireBlocked(c, n) ==
    /\ CallsArrive
    /\ callPc[c] = "idle"
    /\ Locked(lock) \/ lockWaiters # <<>>
    /\ callPc' = [callPc EXCEPT ![c] = "waiting"]
    /\ req' = [req EXCEPT ![c] = n]
    /\ lockWaiters' = Append(lockWaiters, c)
    /\ UNCHANGED <<clock, tokens, last_refill, lock, wakeAt, lastReturn,
                   returnTimes, recordTimes>>
    /\ UNCHANGED <<pipeVars, priceVars, sizerVars, lcVars, placeVars, spendVars, gateVars, submitVars, sellVars, copyVars>>

\* the lock was released: the first waiter gets it and runs lines 42-67
Resume(c) ==
    /\ callPc[c] = "waiting"
    /\ ~Locked(lock)
    /\ lockWaiters # <<>>
    /\ Head(lockWaiters) = c
    /\ lockWaiters' = Tail(lockWaiters)
    /\ Section(c, req[c])
    /\ UNCHANGED clock
    /\ UNCHANGED <<pipeVars, priceVars, sizerVars, lcVars, placeVars, spendVars, gateVars, submitVars, sellVars, copyVars>>

\* line 67: asyncio.sleep(wait_time) returns when the time has passed
\* (variant: it never returns)
SleepOverNever(c) == FALSE
SleepOver(c) == clock >= wakeAt[c]

\* lines 67-76: the sleep is over; refill without the new_tokens > 0 test,
\* deduct, leave the 'async with' block
Wake(c) ==
    /\ callPc[c] = "sleeping"
    /\ SleepOver(c)
    /\ LET elapsed_after_wait == clock - last_refill IN
         tokens' = Min(capacity, tokens + elapsed_after_wait * rate) - req[c]
    /\ last_refill' = clock
    /\ lock' = NoCaller
    /\ callPc' = [callPc EXCEPT ![c] = "idle"]
    /\ req' = [req EXCEPT ![c] = 0]
    /\ wakeAt' = [wakeAt EXCEPT ![c] = 0]
    /\ Returned(c, req[c], TRUE, clock)
    /\ UNCHANGED recordTimes
    /\ UNCHANGED <<clock, lockWaiters>>
    /\ UNCHANGED <<pipeVars, priceVars, sizerVars, lcVars, placeVars, spendVars, gateVars, submitVars, sellVars, copyVars>>

(***************************************************************************)
(* Pricing: TradeExecutionService._calculate_price_with_premium.           *)
(* Prices are counted in thousandths of a dollar (0.001), the grid on      *)
(* which the trader price is drawn.                                        *)
(***************************************************************************)
MaxMilliPrice == 5000

\* lines 693-695, 700 and 711, in thousandths
premium == 20
cap_min == 1
cap_max == 990
buy_skip_above == 990
sell_floor == 10

NoArgs == [side |-> "none", trader_price |-> 0]
Pending == [state |-> "pending", price |-> 0]
None == [state |-> "none", price |-> 0]
Priced(p) == [state |-> "price", price |-> p]

\* lines 692-720 (variant: the raw price is returned without the clamp)
CalculatePriceUnclamped(side, trader_price) ==
    IF side = "BUY"
    THEN IF trader_price > buy_skip_above THEN None
         ELSE Priced(trader_price + premium)
    ELSE Priced(trader_price - premium)
CalculatePriceWithPremium(side, trader_price) ==
    IF side = "BUY"
    THEN IF trader_price > buy_skip_above THEN None
         ELSE LET raw_price == trader_price + premium
              IN Priced(Min(Max(raw_price, cap_min), cap_max))
    ELSE LET raw_price == trader_price - premium
             controlled_price == Max(raw_price, sell_floor)
         IN Priced(Min(controlled_price, cap_max))

\* no pricing call in progress
IdlePricing ==
    /\ priceArgs = NoArgs
    /\ priceResult = Pending

\* a call with any side and any trader price of the grid
InitPricing ==
    /\ priceArgs \in [side : {"BUY", "SELL"}, trader_price : 0 .. MaxMilliPrice]
    /\ priceResult = Pending

\* the call returns
CalcPrice ==
    /\ priceResult = Pending
    /\ priceArgs # NoArgs
    /\ priceResult' = CalculatePriceWithPremium(priceArgs.side,
                                                priceArgs.trader_price)
    /\ UNCHANGED priceArgs
    /\ UNCHANGED <<pipeVars, rlVars, sizerVars, lcVars, placeVars, spendVars, gateVars, submitVars, sellVars, copyVars>>

(***************************************************************************)
(* Sizing: TradeExecutionService._calculate_order_params for a BUY signal  *)
(* and _apply_buy_minimums.  Amounts, ratios, prices and share counts are  *)
(* exact rationals [n, d] in lowest terms (the code computes in floats).   *)
(***************************************************************************)
RECURSIVE GCD(_, _)
GCD(a, b) == IF b = 0 THEN a ELSE GCD(b, a % b)

Rat(n, d) == LET g == GCD(n, d) IN [n |-> n \div g, d |-> d \div g]
RInt(k) == [n |-> k, d |-> 1]
RMul(x, y) == Rat(x.n * y.n, x.d * y.d)
RDiv(x, y) == Rat(x.n * y.d, x.d * y.n)
RLess(x, y) == x.n * y.d < y.n * x.d
RMin(x, y) == IF RLess(y, x) THEN y ELSE x
RMax(x, y) == IF RLess(x, y) THEN y ELSE x

\* config.py defaults
max_trader_usage_cap == Rat(1, 10)
copy_ratio == Rat(3, 10)

\* _apply_buy_minimums, lines 930-931
min_shares == 5
min_amount == 1

\* _get_trader_usdc_balance, lines 1735, 1739, 1743: the value returned when
\* the balance is not in the snapshot, there is no monitor, or the read fails
default_trader_balance == 1000

\* the inputs the sizer is run on: whole USDC amounts, prices in thousandths;
\* min_order_size = -1 stands for None
AmountsUsdc == {1, 10, 100, 1000, 2000}
TraderBalances == {0, 100, 1000, 1000000}
OurBalances == {5, 500, 1000}
OrderPrices == {10, 500, 990}
MaxOrderSizes == {2, 10000}
MinOrderSizes == {-1, 3}
WalletTypes == {"proxy", "local"}
\* Config.max_trader_usage_cap: the default and a cap below the 1% bump
UsageCaps == {max_trader_usage_cap, Rat(1, 200)}
\* Config.get_trader_copy_ratio: the global default, or the trader's own
CopyRatios == {copy_ratio, RInt(1)}
\* where _get_trader_usdc_balance finds the trader: in the balance snapshot,
\* not in it, or there is no memory monitor
BalanceSources == {"snapshot", "absent", "no_monitor"}

\* trader_balance is the snapshot's value; it is read only from the snapshot
SizerInputs ==
    { a \in [amount_usdc : AmountsUsdc, trader_balance : TraderBalances,
             our_balance : OurBalances, order_price : OrderPrices,
             max_order_size : MaxOrderSizes, min_order_size : MinOrderSizes,
             wallet_type : WalletTypes, usage_cap : UsageCaps,
             copy_ratio : CopyRatios,
             balance_source : BalanceSources] :
        a.balance_source = "snapshot" \/ a.trader_balance = 0 }

NoInput == [amount_usdc |-> 0]
NotSized == [state |-> "pending"]
NoOrder == [state |-> "none"]

\* calc_details before the ratio computation ("")
NoDetails ==
    [effective_ratio |-> RInt(0), proportional_amount |-> RInt(0),
     target_amount |-> RInt(0)]

\* the messages returned with None; the balance message (line 1197) carries
\* the two amounts it prints
Msg(kind) == [kind |-> kind]
InsufficientMsg(max_affordable, target_amount) ==
    [kind |-> "insufficient_balance", have |-> max_affordable,
     need |-> target_amount]

\* return None, calc_details, msg
Skipped(msg, calc_details) ==
    [state |-> "none", reason |-> msg, details |-> calc_details]

\* line 1236 (variant: the amount is taken for the number of shares)
OrderSharesNotDivided(amount, price, calc_details) ==
    [state |-> "order", size |-> amount, price |-> price,
     shares |-> amount, details |-> calc_details]
\* return order_params, calc_details, None
Order(amount, price, calc_details) ==
    [state |-> "order", size |-> amount, price |-> price,
     shares |-> RDiv(amount, price), details |-> calc_details]

\* _get_trader_usdc_balance
GetTraderUsdcBalance(a) ==
    IF a.balance_source = "snapshot" THEN a.trader_balance
    ELSE default_trader_balance

\* lines 1062-1067 (variant: the ratio is never raised)
TraderUsageRatioNoBump(amount_usdc, trader_balance) ==
    IF trader_balance > 0 THEN Rat(amount_usdc * 100, trader_balance)
    ELSE RInt(0)
\* lines 1062-1075: the trader's usage ratio in percent, with the bump to 1%
\* for an order above 1000 USDC
TraderUsageRatio(amount_usdc, trader_balance) ==
    LET ratio0 == IF trader_balance > 0
                  THEN Rat(amount_usdc * 100, trader_balance)
                  ELSE RInt(0)
    IN IF amount_usdc > 1000 /\ RLess(RInt(0), ratio0)
                             /\ RLess(ratio0, RInt(1))
       THEN RInt(1) ELSE ratio0

\* lines 1085-1086 (variant: the cap is not applied)
EffectiveRatioUncapped(trader_usage_ratio, cap) == trader_usage_ratio
EffectiveRatio(trader_usage_ratio, cap) ==
    RMin(trader_usage_ratio, RMul(cap, RInt(100)))

\* lines 1189-1192 (variant: the whole balance in every wallet mode)
MaxAffordableFull(wallet_type, our_balance) == our_balance
MaxAffordable(wallet_type, our_balance) ==
    IF wallet_type = "proxy" THEN our_balance
    ELSE RMul(our_balance, Rat(9, 10))

\* _apply_buy_minimums: the adjusted amount, or NoOrder for None
ApplyBuyMinimums(target_amount, order_price) ==
    IF ~RLess(RInt(0), order_price) THEN NoOrder
    ELSE LET raw_shares == RDiv(target_amount, order_price)
             final_shares == RMax(raw_shares, RInt(min_shares))
             final_amount == RMul(final_shares, order_price)
         IN IF RLess(final_amount, RInt(min_amount)) THEN NoOrder
            ELSE [state |-> "amount", amount |-> final_amount]

\* lines 1146-1260: size limits, balance check, order construction
LimitAndBuild(a, target0, order_price, calc_details) ==
    LET max_order_size == RInt(a.max_order_size)
        has_min == a.min_order_size # -1
        min_order_size == RInt(a.min_order_size)
        target_amount == IF RLess(max_order_size, target0)
                         THEN max_order_size ELSE target0
        max_affordable == MaxAffordable(a.wallet_type, RInt(a.our_balance))
        order_amount == IF RLess(max_affordable, target_amount)
                        THEN max_affordable ELSE target_amount
    IN IF has_min /\ RLess(target_amount, min_order_size)
       THEN Skipped(Msg("below_min_order_size"), calc_details)
       ELSE IF RLess(max_affordable, target_amount)
       THEN Skipped(InsufficientMsg(max_affordable, target_amount),
                    calc_details)
       ELSE IF has_min /\ RLess(order_amount, min_order_size)
       THEN Skipped(Msg("below_min_order_size"), calc_details)
       ELSE IF RLess(max_affordable, order_amount)
       THEN Skipped(InsufficientMsg(max_affordable, order_amount),
                    calc_details)
       ELSE IF ~RLess(RInt(0), order_amount)
       THEN Skipped(Msg("invalid_amount"), calc_details)
       ELSE Order(order_amount, order_price, calc_details)

\* _calculate_order_params, BUY branch (lines 1057-1260)
CalculateOrderParams(a) ==
    LET order_price == Rat(a.order_price, 1000)
        amount_usdc == RInt(a.amount_usdc)
        trader_balance == GetTraderUsdcBalance(a)
        trader_usage_ratio == TraderUsageRatio(a.amount_usdc, trader_balance)
    IN IF ~RLess(RInt(0), trader_usage_ratio)
       THEN Skipped(Msg("trader_balance_zero"), NoDetails)
       ELSE LET effective_ratio ==
                    EffectiveRatio(trader_usage_ratio, a.usage_cap)
                proportional_amount ==
                    RMul(RInt(a.our_balance), RDiv(effective_ratio, RInt(100)))
                target_amount ==
                    RMin(RMul(proportional_amount, a.copy_ratio), amount_usdc)
                calc_details ==
                    [effective_ratio |-> effective_ratio,
                     proportional_amount |-> proportional_amount,
                     target_amount |-> target_amount]
                adjusted == ApplyBuyMinimums(target_amount, order_price)
            IN IF adjusted = NoOrder
               THEN Skipped(Msg("below_buy_minimums"), calc_details)
               ELSE LimitAndBuild(a, adjusted.amount, order_price,
                                  calc_details)

\* no sizing call in progress
IdleSizing ==
    /\ sizerArgs = NoInput
    /\ sizerResult = NotSized

\* a call on any of the inputs
InitSizing ==
    /\ sizerArgs \in SizerInputs
    /\ sizerResult = NotSized

\* the call returns
CalcOrder ==
    /\ sizerResult = NotSized
    /\ sizerArgs # NoInput
    /\ sizerResult' = CalculateOrderParams(sizerArgs)
    /\ UNCHANGED sizerArgs
    /\ UNCHANGED <<pipeVars, rlVars, priceVars, lcVars, placeVars, spendVars, gateVars, submitVars, sellVars, copyVars>>

(***************************************************************************)
(* Order lifecycle: TradeExecutionService._manage_order_lifecycle for one  *)
(* accepted order, with _get_order_status, _cancel_order and               *)
(* _update_positions_after_trade.  Time is in seconds.                     *)
(***************************************************************************)
\* the order timeout the service runs with (self.order_timeout)
order_timeout == 30
\* line 1558
check_interval == 10
\* granularity and horizon of time.time()
LcStep == 10
LcMaxTime == 60

\* the 'status' field of the exchange's answer; MATCHED is not in status_map
RawStatuses ==
    {"OPEN", "PARTIAL_FILLED", "FILLED", "CANCELLED", "EXPIRED", "MATCHED"}

\* the 'expiresAt' field of the answer, in seconds: absent, or one value
ExpiresAtValues == {<<>>, <<15>>, <<100>>}

\* the answers of client.get_order
OrderData == [status : RawStatuses, expiresAt : ExpiresAtValues]

\* lines 1608-1616: status_map.get(raw_status, 'unknown')
StatusMap(raw_status) ==
    CASE raw_status = "OPEN" -> "pending"
      [] raw_status = "PARTIAL_FILLED" -> "partial_filled"
      [] raw_status = "FILLED" -> "filled"
      [] raw_status = "CANCELLED" -> "cancelled"
      [] raw_status = "EXPIRED" -> "expired"
      [] OTHER -> "unknown"

\* lines 1639-1647: expires_at of the OrderStatus built from an answer
ExpiresAt(order_data, t) ==
    IF order_data.expiresAt # <<>> THEN Head(order_data.expiresAt)
    ELSE t + order_timeout

\* lines 1649-1660: the OrderStatus built from an answer received at time t
OrderStatus(order_data, t) ==
    [status |-> StatusMap(order_data.status),
     expires_at |-> ExpiresAt(order_data, t)]

\* no order has been accepted
NoRecord == [status |-> "none", expires_at |-> 0]

\* lines 1592-1597: where the task goes when the loop is left (variant: the
\* refresh is skipped when the loop was left by an exception)
AfterLoopInsideTry(cause) == IF cause = "exception" THEN "done" ELSE "refresh"
AfterLoop(cause) == "refresh"

\* no lifecycle task
IdleLifecycle ==
    /\ lcNow = 0
    /\ lcPc = "none"
    /\ start_time = 0
    /\ lcWake = 0
    /\ order_record = NoRecord
    /\ cancels = 0
    /\ refreshes = 0
    /\ sincePoll = 0
    /\ lcExit = "none"

\* lines 1513-1522 and 394: the order was accepted, its record is cached as
\* pending and the lifecycle task is created
InitLifecycle ==
    /\ lcNow = 0
    /\ lcPc = "created"
    /\ start_time = 0
    /\ lcWake = 0
    /\ order_record = [status |-> "pending", expires_at |-> order_timeout]
    /\ cancels = 0
    /\ refreshes = 0
    /\ sincePoll = 0
    /\ lcExit = "none"

\* time.time() advances
LcTick ==
    /\ lcPc # "done"
    /\ lcNow + LcStep <= LcMaxTime
    /\ lcNow' = lcNow + LcStep
    /\ UNCHANGED <<lcPc, lcWake, start_time, order_record, cancels,
                   refreshes, sincePoll, lcExit>>
    /\ UNCHANGED <<pipeVars, rlVars, priceVars, sizerVars, placeVars, spendVars, gateVars, submitVars, sellVars, copyVars>>

\* line 1561-1562: the loop condition for a task started at st; the task
\* suspends in asyncio.sleep(check_interval) or leaves the loop
LoopHead(st) ==
    IF lcNow - st < order_timeout
    THEN /\ lcPc' = "sleep"
         /\ lcWake' = lcNow + check_interval
         /\ UNCHANGED lcExit
    ELSE /\ lcPc' = AfterLoop("expiry")
         /\ lcExit' = "expiry"
         /\ UNCHANGED lcWake

\* lines 1554-1562: the task starts running, up to its first suspension
StartTask ==
    /\ lcPc = "created"
    /\ start_time' = lcNow
    /\ LoopHead(lcNow)
    /\ UNCHANGED <<lcNow, order_record, cancels, refreshes, sincePoll>>
    /\ UNCHANGED <<pipeVars, rlVars, priceVars, sizerVars, placeVars, spendVars, gateVars, submitVars, sellVars, copyVars>>

\* lines 1571, 1561-1562: _update_positions_after_trade has returned after a
\* failed status query; continue
LoopCheck ==
    /\ lcPc = "loop"
    /\ LoopHead(start_time)
    /\ UNCHANGED <<lcNow, start_time, order_record, cancels, refreshes,
                   sincePoll>>
    /\ UNCHANGED <<pipeVars, rlVars, priceVars, sizerVars, placeVars, spendVars, gateVars, submitVars, sellVars, copyVars>>

\* line 1571: continue (variant: a failed status query is treated as a
\* timeout and the order is cancelled)
AfterPollFailedCancel == "cancel"
AfterPollFailed == "loop"

\* lines 1565-1571: the sleep is over and _get_order_status returns None;
\* _update_positions_after_trade is called
PollFailed ==
    /\ lcPc = "sleep"
    /\ lcNow >= lcWake
    /\ refreshes' = refreshes + 1
    /\ sincePoll' = 1
    /\ lcPc' = AfterPollFailed
    /\ UNCHANGED <<lcNow, lcWake, start_time, order_record, cancels, lcExit>>
    /\ UNCHANGED <<pipeVars, rlVars, priceVars, sizerVars, placeVars, spendVars, gateVars, submitVars, sellVars, copyVars>>

\* lines 1565-1590: the sleep is over and _get_order_status returns the
\* OrderStatus of the answer; the cache is overwritten (lines 1662, 1575);
\* the loop is left on filled / cancelled, goes to _cancel_order when
\* time.time() > expires_at, and otherwise continues with the loop condition
PollStatus(order_data) ==
    LET order_status == OrderStatus(order_data, lcNow) IN
    /\ lcPc = "sleep"
    /\ lcNow >= lcWake
    /\ order_record' = order_status
    /\ sincePoll' = 0
    /\ IF order_status.status \in {"filled", "cancelled"}
       THEN /\ lcPc' = AfterLoop("break")
            /\ lcExit' = "break"
            /\ UNCHANGED lcWake
       ELSE IF lcNow > order_status.expires_at
       THEN /\ lcPc' = "cancel"
            /\ UNCHANGED <<lcExit, lcWake>>
       ELSE LoopHead(start_time)
    /\ UNCHANGED <<lcNow, start_time, cancels, refreshes>>
    /\ UNCHANGED <<pipeVars, rlVars, priceVars, sizerVars, placeVars, spendVars, gateVars, submitVars, sellVars, copyVars>>

\* lines 1588-1589 with _cancel_order (1669-1693): client.cancel is called;
\* when it returns the cached record is marked cancelled, when it raises the
\* exception is logged; then break
CancelOrder(ok) ==
    /\ lcPc = "cancel"
    /\ cancels' = cancels + 1
    /\ order_record' = IF ok THEN [order_record EXCEPT !.status = "cancelled"]
                       ELSE order_record
    /\ lcPc' = AfterLoop("cancel")
    /\ lcExit' = "cancel"
    /\ UNCHANGED <<lcNow, lcWake, start_time, refreshes, sincePoll>>
    /\ UNCHANGED <<pipeVars, rlVars, priceVars, sizerVars, placeVars, spendVars, gateVars, submitVars, sellVars, copyVars>>

\* lines 1592-1593: an exception raised inside the loop is logged
LoopRaises ==
    /\ lcPc = "sleep"
    /\ lcPc' = AfterLoop("exception")
    /\ lcExit' = "exception"
    /\ UNCHANGED <<lcNow, lcWake, start_time, order_record, cancels,
                   refreshes, sincePoll>>
    /\ UNCHANGED <<pipeVars, rlVars, priceVars, sizerVars, placeVars, spendVars, gateVars, submitVars, sellVars, copyVars>>

\* lines 1595-1597: _update_positions_after_trade, then the task ends
Refresh ==
    /\ lcPc = "refresh"
    /\ refreshes' = refreshes + 1
    /\ sincePoll' = sincePoll + 1
    /\ lcPc' = "done"
    /\ UNCHANGED <<lcNow, lcWake, start_time, order_record, cancels, lcExit>>
    /\ UNCHANGED <<pipeVars, rlVars, priceVars, sizerVars, placeVars, spendVars, gateVars, submitVars, sellVars, copyVars>>

(***************************************************************************)
(* Submission guards: TradeExecutionService._place_gtc_order.  Prices are  *)
(* in thousandths, share counts in millionths of a share.                  *)
(***************************************************************************)
\* one share, in millionths
Share == 1000 * 1000

\* line 1327: 0.001 and 0.99, in thousandths
min_price == 1
max_price == 990
\* lines 1353-1354
min_buy_notional == 1
min_buy_shares == 5
\* line 1357: the tolerance 0.000001, in millionths of a share
shares_tolerance == 1

\* order_params: side, price and shares
PlaceSides == {"BUY", "SELL"}
PlacePrices == {0, 1, 150, 500, 990, 991}
PlaceShares ==
    {0, 4 * Share, 5 * Share - 2, 5 * Share - 1, 5 * Share, 7 * Share}
PlaceInputs == [side : PlaceSides, price : PlacePrices, shares : PlaceShares]

NoParams == [side |-> "none"]
NotPlaced == [state |-> "pending"]

\* line 1327 (variant: no upper limit)
PriceInvalidNoMax(price) == price < min_price
PriceInvalid(price) == price < min_price \/ price > max_price

\* line 1357: float(shares) < min_buy_shares - 0.000001
SharesBelowMin(shares) == shares < min_buy_shares * Share - shares_tolerance

\* lines 1348, 1363: notional = shares * price, notional < min_buy_notional;
\* shares * price < min_buy_notional * Share * 1000 in model units, written
\* with a division to stay within 32-bit integers
NotionalBelowMin(shares, price) ==
    IF price <= 0 THEN TRUE
    ELSE shares <= (min_buy_notional * Share * 1000 - 1) \div price

\* lines 1327-1367: TRUE when _place_gtc_order returns None before building
\* the order
GuardsRefuse(p) ==
    \/ PriceInvalid(p.price)
    \/ /\ p.side = "BUY"
       /\ \/ p.shares <= 0
          \/ SharesBelowMin(p.shares)
          \/ NotionalBelowMin(p.shares, p.price)

\* no call in progress
IdlePlacing ==
    /\ placeArgs = NoParams
    /\ placeResult = NotPlaced

\* a call on any order_params
InitPlacing ==
    /\ placeArgs \in PlaceInputs
    /\ placeResult = NotPlaced

\* lines 1327-1367: a guard returns None; nothing reaches the client
PlaceRefused ==
    /\ placeResult = NotPlaced
    /\ placeArgs # NoParams
    /\ GuardsRefuse(placeArgs)
    /\ placeResult' = [state |-> "returned", handed |-> FALSE,
                       order_id |-> FALSE, record |-> FALSE]
    /\ UNCHANGED placeArgs
    /\ UNCHANGED <<pipeVars, rlVars, priceVars, sizerVars, lcVars, spendVars, gateVars, submitVars, sellVars, copyVars>>

\* lines 1369-1528: the order is built, signed and posted; with a successful
\* response carrying an orderID the record is cached and the id returned,
\* otherwise None is returned
PlacePosted(success) ==
    /\ placeResult = NotPlaced
    /\ placeArgs # NoParams
    /\ ~GuardsRefuse(placeArgs)
    /\ placeResult' = [state |-> "returned", handed |-> TRUE,
                       order_id |-> success, record |-> success]
    /\ UNCHANGED placeArgs
    /\ UNCHANGED <<pipeVars, rlVars, priceVars, sizerVars, lcVars, spendVars, gateVars, submitVars, sellVars, copyVars>>

(***************************************************************************)
(* Consecutive BUY signals: execute_copy_trade sizes each order from the   *)
(* balance cache of the memory monitor (_get_our_usdc_balance); the cache  *)
(* is written by BalanceMonitor.update_balances.                           *)
(***************************************************************************)
\* orders followed between two writes of the cache
MaxOrders == 3

RAdd(x, y) == Rat(x.n * y.d + y.n * x.d, x.d * y.d)

RECURSIVE RSum(_)
RSum(seq) == IF seq = <<>> THEN RInt(0) ELSE RAdd(Head(seq), RSum(Tail(seq)))

\* the BUY signals and prices the executor is given; the limits do not bind
SpendSignals ==
    [amount_usdc : {10, 2000}, trader_balance : {100, 1000000},
     order_price : {500, 990}]

\* the sizer input of a signal: our_balance is read from the cache
\* (line 1060), the wallet type from the service
SpendInput(sig) ==
    [amount_usdc |-> sig.amount_usdc, trader_balance |-> sig.trader_balance,
     our_balance |-> balance_cache, order_price |-> sig.order_price,
     max_order_size |-> 10000, min_order_size |-> -1,
     wallet_type |-> walletMode, usage_cap |-> max_trader_usage_cap,
     copy_ratio |-> copy_ratio, balance_source |-> "snapshot"]

\* no signal is being followed
IdleSpending ==
    /\ balance_cache = 0
    /\ walletMode = "none"
    /\ sizedOrders = <<>>

\* the cache holds a balance, no order was sized from it yet
InitSpending ==
    /\ balance_cache \in OurBalances
    /\ walletMode \in WalletTypes
    /\ sizedOrders = <<>>

\* execute_copy_trade for a BUY signal, lines 266-400: the order is sized,
\* submitted and accepted, the lifecycle task is created and the call
\* returns; the balance cache is not written
FollowBuy(sig) ==
    LET r == CalculateOrderParams(SpendInput(sig)) IN
    /\ walletMode # "none"
    /\ Len(sizedOrders) < MaxOrders
    /\ r.state = "order"
    /\ sizedOrders' = Append(sizedOrders, r.size)
    /\ UNCHANGED <<balance_cache, walletMode>>
    /\ UNCHANGED <<pipeVars, rlVars, priceVars, sizerVars, lcVars, placeVars, gateVars, submitVars, sellVars, copyVars>>

\* execute_copy_trade for a BUY signal the sizer returns None for
\* (lines 266-326)
SkipBuy(sig) ==
    /\ walletMode # "none"
    /\ CalculateOrderParams(SpendInput(sig)).state = "none"
    /\ UNCHANGED <<balance_cache, walletMode, sizedOrders>>
    /\ UNCHANGED <<pipeVars, rlVars, priceVars, sizerVars, lcVars, placeVars, gateVars, submitVars, sellVars, copyVars>>

\* BalanceMonitor.update_balances (balance_monitor.py 817-946): the cache is
\* written with the balance read
UpdateBalances(b) ==
    /\ walletMode # "none"
    /\ balance_cache' = b
    /\ sizedOrders' = <<>>
    /\ UNCHANGED walletMode
    /\ UNCHANGED <<pipeVars, rlVars, priceVars, sizerVars, lcVars, placeVars, gateVars, submitVars, sellVars, copyVars>>

(***************************************************************************)
(* Requests to the Data API (data-api.polymarket.com): the activity feed   *)
(* of the pollers, the positions of the balance monitor, and the activity  *)
(* queries of _check_position and _check_trader_position during the        *)
(* execution of a signal.                                                  *)
(***************************************************************************)
\* requests recorded
MaxRequests == 3

\* the tasks that send requests: one poller per trader, the balance monitor,
\* the queue consumer executing signals
ApiCallers == Traders \cup {"balance_monitor", "executor"}

\* the wallets queried: a target trader's or our own
ApiUsers == Traders \cup {"our_wallet"}

ApiRequest(caller, url, user) ==
    [caller |-> caller, url |-> url, user |-> user,
     acquired |-> acquired[caller]]

IdleGate ==
    /\ acquired = [c \in ApiCallers |-> 0]
    /\ requests = <<>>

\* session.get of a caller: the request is sent, whatever was acquired
SessionGet(caller, url, user) ==
    /\ Len(requests) < MaxRequests
    /\ requests' = Append(requests, ApiRequest(caller, url, user))
    /\ acquired' = [acquired EXCEPT ![caller] = 0]

\* await global_rate_limiter.acquire() returns to the caller
AcquireReturns(caller) ==
    /\ acquired[caller] = 0
    /\ Len(requests) < MaxRequests
    /\ acquired' = [acquired EXCEPT ![caller] = 1]
    /\ UNCHANGED requests

\* fetch_trader_activities, monitor_service.py 305: acquire
FeedAcquire(t) ==
    /\ AcquireReturns(t)
    /\ UNCHANGED <<pipeVars, rlVars, priceVars, sizerVars, lcVars, placeVars, spendVars, submitVars, sellVars, copyVars>>

\* fetch_trader_activities, monitor_service.py 307-308: the request follows
\* the acquire
FeedRequest(t) ==
    /\ acquired[t] = 1
    /\ SessionGet(t, "activity", t)
    /\ UNCHANGED <<pipeVars, rlVars, priceVars, sizerVars, lcVars, placeVars, spendVars, submitVars, sellVars, copyVars>>

\* balance_monitor.py 222, 337, 566: acquire
PositionsAcquire ==
    /\ AcquireReturns("balance_monitor")
    /\ UNCHANGED <<pipeVars, rlVars, priceVars, sizerVars, lcVars, placeVars, spendVars, submitVars, sellVars, copyVars>>

\* balance_monitor.py 224-225, 339-340, 568-569: the request follows the
\* acquire
PositionsRequest(user) ==
    /\ acquired["balance_monitor"] = 1
    /\ SessionGet("balance_monitor", "positions", user)
    /\ UNCHANGED <<pipeVars, rlVars, priceVars, sizerVars, lcVars, placeVars, spendVars, submitVars, sellVars, copyVars>>

\* _check_position (SELL signal), trade_execution_service.py 455-462: the
\* request is sent as soon as the wallet is known
CheckPosition ==
    /\ SessionGet("executor", "activity", "our_wallet")
    /\ UNCHANGED <<pipeVars, rlVars, priceVars, sizerVars, lcVars, placeVars, spendVars, submitVars, sellVars, copyVars>>

\* _check_trader_position (BUY signal), trade_execution_service.py 505-512
CheckTraderPosition(trader_address) ==
    /\ SessionGet("executor", "activity", trader_address)
    /\ UNCHANGED <<pipeVars, rlVars, priceVars, sizerVars, lcVars, placeVars, spendVars, submitVars, sellVars, copyVars>>

(***************************************************************************)
(* Submission: _place_gtc_order from post_order on, and what               *)
(* execute_copy_trade does with its result (lines 330-400).                *)
(***************************************************************************)
\* calls of _place_gtc_order recorded
MaxAttempts == 3

\* how a call ends: a guard returns None, create_order or post_order raises,
\* or post_order answers with 'success' and 'orderID' present or not
PlaceOutcomes ==
    { [kind |-> "refused", success |-> FALSE, orderID |-> FALSE],
      [kind |-> "raised", success |-> FALSE, orderID |-> FALSE] }
    \cup [kind : {"answered"}, success : BOOLEAN, orderID : BOOLEAN]

\* lines 1461-1465: post_order was called
Posted(outcome) == outcome.kind = "answered"

\* lines 1479-1483: resp.get('success') and an orderID (variant: the
\* orderID is not looked at)
HasOrderIdUnchecked(outcome) == outcome.kind = "answered" /\ outcome.success
HasOrderId(outcome) ==
    outcome.kind = "answered" /\ outcome.success /\ outcome.orderID

\* line 1513: the record cached for the accepted order
NewOrderRecord(h) ==
    [original_signal |-> h, side |-> "BUY", status |-> "pending"]

IdleSubmit ==
    /\ attempts = <<>>
    /\ lifecycle_tasks = {}

\* execute_copy_trade for a signal that passed validation, from the call of
\* _place_gtc_order (line 330) to its return (lines 377, 400)
PlaceOrder(h, outcome) ==
    /\ Len(attempts) < MaxAttempts
    /\ h \notin processed_signals
    /\ attempts' = Append(attempts, [hash |-> h, outcome |-> outcome])
    /\ submitLog' = IF Posted(outcome) THEN PostOrder(submitLog, h)
                    ELSE submitLog
    /\ IF HasOrderId(outcome)
       THEN /\ orders_cache' = Append(orders_cache, NewOrderRecord(h))
            /\ lifecycle_tasks' = lifecycle_tasks \cup {h}
            /\ processed_signals' = processed_signals \cup {h}
       ELSE UNCHANGED <<orders_cache, lifecycle_tasks, processed_signals>>
    /\ UNCHANGED <<now, running, stopped, trade_queue, pollerVars,
                   trade_processing_lock, consPc, inflight, signal, execLog>>
    /\ UNCHANGED <<rlVars, priceVars, sizerVars, lcVars, placeVars, spendVars, gateVars, sellVars, copyVars>>

(***************************************************************************)
(* SELL sizing: TradeExecutionService._calculate_order_params, SELL        *)
(* branch.  Share counts and amounts are exact rationals, prices are in    *)
(* thousandths; 0 stands for a missing (None or 0) signal field.           *)
(***************************************************************************)
\* lines 1031, 1042: the dust threshold and the minimum lot, in shares
dust_threshold == 5
min_sell_shares == 5

\* our position, the trader's position before the sale, the signal's
\* shares, amount and price, the order price, Config.min_order_size (-1 for
\* None)
SellInputs ==
    [our_position_shares : {0, 3, 5, 8, 20},
     trader_total : {0, 10, 40},
     signal_shares : {0, 5, 10, 50},
     amount_usdc : {0, 5},
     signal_price : {0, 500},
     order_price : {10, 500},
     min_order_size : MinOrderSizes]

\* lines 1008-1015: the shares the trader sold, from the signal or derived
\* from its amount
TraderSold(a) ==
    IF a.signal_shares > 0 THEN RInt(a.signal_shares)
    ELSE LET ref_price == IF a.signal_price # 0 THEN a.signal_price
                          ELSE a.order_price
         IN IF ref_price > 0 THEN Rat(a.amount_usdc * 1000, ref_price)
            ELSE RInt(0)

\* lines 1018-1022: the share of the trader's position that was sold
SellRatio(a) ==
    LET trader_sold == TraderSold(a) IN
    IF a.trader_total > 0 /\ RLess(RInt(0), trader_sold)
    THEN RMin(RDiv(trader_sold, RInt(a.trader_total)), RInt(1))
    ELSE RInt(1)

\* lines 1031-1049: all of a dust position, else the ratio with the minimum
\* lot, capped at our position
OurSellShares(our_position_shares, sell_ratio) ==
    IF our_position_shares < dust_threshold THEN RInt(our_position_shares)
    ELSE RMin(RMax(RMul(RInt(our_position_shares), sell_ratio),
                   RInt(min_sell_shares)),
              RInt(our_position_shares))

\* lines 1031-1034, 1051
UseMarketOrder(our_position_shares) == our_position_shares < dust_threshold

\* lines 1236-1252: order_params of a SELL
SellOrder(amount, price, use_market_order, calc_details) ==
    [state |-> "order", size |-> amount, price |-> price,
     shares |-> RDiv(amount, price),
     order_type |-> IF use_market_order THEN "MARKET" ELSE "GTC",
     time_in_force |-> IF use_market_order THEN "FOK" ELSE "GTC",
     details |-> calc_details]

\* _calculate_order_params, SELL branch (lines 988-1055, 1149-1260)
CalculateSellParams(a) ==
    IF a.our_position_shares <= 0
    THEN Skipped(Msg("no_position"), NoDetails)
    ELSE LET order_price == Rat(a.order_price, 1000)
             sell_ratio == SellRatio(a)
             calc_details == [sell_ratio |-> sell_ratio]
             our_sell_shares == OurSellShares(a.our_position_shares, sell_ratio)
             target0 == RMul(our_sell_shares, order_price)
             position_value_usdc == RMul(RInt(a.our_position_shares), order_price)
             order_amount == RMin(target0, position_value_usdc)
         IN IF a.min_order_size # -1
               /\ RLess(order_amount, RInt(a.min_order_size))
            THEN Skipped(Msg("below_min_order_size"), calc_details)
            ELSE IF ~RLess(RInt(0), order_amount)
            THEN Skipped(Msg("invalid_amount"), calc_details)
            ELSE SellOrder(order_amount, order_price,
                           UseMarketOrder(a.our_position_shares), calc_details)

\* no sizing call in progress
IdleSell ==
    /\ sellArgs = NoInput
    /\ sellResult = NotSized

\* a call on any of the inputs
InitSell ==
    /\ sellArgs \in SellInputs
    /\ sellResult = NotSized

\* the call returns
CalcSellOrder ==
    /\ sellResult = NotSized
    /\ sellArgs # NoInput
    /\ sellResult' = CalculateSellParams(sellArgs)
    /\ UNCHANGED sellArgs
    /\ UNCHANGED <<pipeVars, rlVars, priceVars, sizerVars, lcVars, placeVars, spendVars, gateVars, submitVars, copyVars>>

(***************************************************************************)
(* execute_copy_trade from the pricing step on (steps 3 to 5), for one     *)
(* signal with a trader price.                                             *)
(***************************************************************************)
\* lines 260-262: 'if not order_price: return False' (variant: the missing
\* price is not looked at)
AfterPriceUnchecked(order_price) == "size"
AfterPrice(order_price) ==
    IF order_price.state = "price" THEN "size" ELSE "returned"

\* no signal is being executed
IdleCopy ==
    /\ copyPc = "none"
    /\ copyCalls = <<>>
    /\ copyOrders = 0

\* a signal of any side and trader price has passed the position checks
InitCopy ==
    /\ copyPc = "price"
    /\ copyCalls = <<>>
    /\ copyOrders = 0

\* lines 260-262 and _get_current_price lines 748-756: the order price of a
\* signal that carries a trader price
GetCurrentPrice ==
    /\ copyPc = "price"
    /\ priceResult = Pending
    /\ priceResult' = CalculatePriceWithPremium(priceArgs.side,
                                                priceArgs.trader_price)
    /\ copyPc' = AfterPrice(priceResult')
    /\ UNCHANGED <<priceArgs, copyCalls, copyOrders>>
    /\ UNCHANGED <<pipeVars, rlVars, sizerVars, lcVars, placeVars, spendVars, gateVars, submitVars, sellVars>>

\* lines 266-325: _calculate_order_params is called; ok = FALSE when it
\* returns no order
CalculateParams(ok) ==
    /\ copyPc = "size"
    /\ copyCalls' = Append(copyCalls, "sizer")
    /\ copyPc' = IF ok THEN "submit" ELSE "returned"
    /\ UNCHANGED copyOrders
    /\ UNCHANGED <<pipeVars, rlVars, priceVars, sizerVars, lcVars, placeVars, spendVars, gateVars, submitVars, sellVars>>

\* lines 330-400: _place_gtc_order is called, and caches an OrderRecord when
\* the exchange accepted the order (line 1513)
PlaceGtcOrder(outcome) ==
    /\ copyPc = "submit"
    /\ copyCalls' = Append(copyCalls, "submitter")
    /\ copyOrders' = IF HasOrderId(outcome) THEN copyOrders + 1 ELSE copyOrders
    /\ copyPc' = "returned"
    /\ UNCHANGED <<pipeVars, rlVars, priceVars, sizerVars, lcVars, placeVars, spendVars, gateVars, submitVars, sellVars>>

(***************************************************************************)
(* Specifications                                                          *)
(***************************************************************************)
Init ==
    InitPipe /\ InitLimiter /\ IdlePricing /\ IdleSizing /\ IdleLifecycle
    /\ IdlePlacing
    /\ IdleCopy
    /\ IdleSell
    /\ IdleSubmit
    /\ IdleGate
    /\ IdleSpending

NextPipe ==
    \/ Tick
    \/ \E t \in Traders : PollLoop(t)
    \/ \E t \in Traders : Fetch200(t)
    \/ \E t \in Traders : Fetch429(t)
    \/ \E t \in Traders : FetchFailed(t)
    \/ \E t \in Traders : Backoff(t)
    \/ DequeueDropped
    \/ Dequeue
    \/ Validate
    \/ Rejected
    \/ \E ok \in BOOLEAN : Price(ok)
    \/ \E ok \in BOOLEAN : Size(ok)
    \/ SubmitRefused
    \/ SubmitFailed
    \/ SubmitOk

\* the running pipeline
Spec == Init /\ [][NextPipe]_vars

\* the pipeline with shutdown: stop() may be called at any time
NextShutdown ==
    \/ NextPipe
    \/ Stop
    \/ DequeueSentinel

SpecShutdown == Init /\ [][NextShutdown]_vars

\* the pollers when every fetch for trader A fails: A gets a 429, another
\* status, a timeout or an exception at each request; B gets any response
NextIsolation ==
    \/ Tick
    \/ \E t \in Traders : PollLoop(t)
    \/ Fetch429("A")
    \/ FetchFailed("A")
    \/ Fetch200("B")
    \/ Fetch429("B")
    \/ FetchFailed("B")
    \/ \E t \in Traders : Backoff(t)

\* B's task is scheduled fairly: the event loop runs every ready task, each
\* request of B is answered or times out (timeout=10), each sleep ends
SpecIsolation ==
    /\ Init
    /\ [][NextIsolation]_vars
    /\ WF_vars(PollLoop("B"))
    /\ WF_vars(Fetch200("B") \/ Fetch429("B") \/ FetchFailed("B"))
    /\ WF_vars(Backoff("B"))

\* RateLimiter.acquire called by concurrent tasks
NextRL ==
    \/ RLTick
    \/ \E c \in Callers, n \in Amounts : Acquire(c, n)
    \/ \E c \in Callers, n \in Amounts : AcquireBlocked(c, n)
    \/ \E c \in Callers : Resume(c)
    \/ \E c \in Callers : Wake(c)

SpecRL == Init /\ [][NextRL]_vars

\* the same with the times of the returns kept
InitPacing ==
    InitPipe /\ InitPacedLimiter /\ IdlePricing /\ IdleSizing /\ IdleLifecycle
    /\ IdlePlacing
    /\ IdleSell
    /\ IdleSubmit
    /\ IdleGate
    /\ IdleSpending
    /\ IdleCopy

SpecPacing == InitPacing /\ [][NextRL]_vars

\* the same under fair scheduling: time passes, the event loop resumes the
\* task whose sleep is over and the task the lock was handed to
SpecRLFair ==
    /\ Init
    /\ [][NextRL]_vars
    /\ WF_vars(RLTick)
    /\ \A c \in Callers : WF_vars(Resume(c))
    /\ \A c \in Callers : WF_vars(Wake(c))

\* _calculate_price_with_premium on every side and grid price
InitPrice ==
    InitPipe /\ InitLimiter /\ InitPricing /\ IdleSizing /\ IdleLifecycle
    /\ IdlePlacing
    /\ IdleCopy
    /\ IdleSell
    /\ IdleSubmit
    /\ IdleGate
    /\ IdleSpending

NextPrice == CalcPrice

SpecPrice == InitPrice /\ [][NextPrice]_vars

\* _calculate_order_params on every sizer input
InitSizer ==
    InitPipe /\ InitLimiter /\ IdlePricing /\ InitSizing /\ IdleLifecycle
    /\ IdlePlacing
    /\ IdleCopy
    /\ IdleSell
    /\ IdleSubmit
    /\ IdleGate
    /\ IdleSpending

NextSizer == CalcOrder

SpecSizer == InitSizer /\ [][NextSizer]_vars

\* _place_gtc_order on every order_params
InitPlace ==
    InitPipe /\ InitLimiter /\ IdlePricing /\ IdleSizing /\ IdleLifecycle
    /\ InitPlacing
    /\ IdleCopy
    /\ IdleSell
    /\ IdleSubmit
    /\ IdleGate
    /\ IdleSpending

NextPlace ==
    \/ PlaceRefused
    \/ \E success \in BOOLEAN : PlacePosted(success)

SpecPlace == InitPlace /\ [][NextPlace]_vars

\* BUY signals followed one after the other
InitSpend ==
    InitPipe /\ InitLimiter /\ IdlePricing /\ IdleSizing /\ IdleLifecycle
    /\ IdlePlacing
    /\ IdleCopy
    /\ IdleSell
    /\ IdleSubmit
    /\ IdleGate
    /\ InitSpending

NextSpend ==
    \/ \E sig \in SpendSignals : FollowBuy(sig)
    \/ \E sig \in SpendSignals : SkipBuy(sig)
    \/ \E b \in OurBalances : UpdateBalances(b)

SpecSpend == InitSpend /\ [][NextSpend]_vars

\* the tasks that send requests to the Data API
NextGate ==
    \/ \E t \in Traders : FeedAcquire(t)
    \/ \E t \in Traders : FeedRequest(t)
    \/ PositionsAcquire
    \/ \E user \in ApiUsers : PositionsRequest(user)
    \/ CheckPosition
    \/ \E t \in Traders : CheckTraderPosition(t)

SpecGate == Init /\ [][NextGate]_vars

\* _calculate_order_params on every SELL input
InitSellSizer ==
    InitPipe /\ InitLimiter /\ IdlePricing /\ IdleSizing /\ IdleLifecycle
    /\ IdlePlacing
    /\ IdleCopy
    /\ IdleSpending
    /\ IdleGate
    /\ IdleSubmit
    /\ InitSell

NextSellSizer == CalcSellOrder

SpecSellSizer == InitSellSizer /\ [][NextSellSizer]_vars

\* the steps of the process_trade_queue task
ConsumerStep ==
    \/ DequeueDropped
    \/ Dequeue
    \/ Validate
    \/ Rejected
    \/ \E ok \in BOOLEAN : Price(ok)
    \/ \E ok \in BOOLEAN : Size(ok)
    \/ SubmitRefused
    \/ SubmitFailed
    \/ SubmitOk

\* the pollers feeding the consumer
NextConsumer ==
    \/ Tick
    \/ \E t \in Traders : PollLoop(t)
    \/ \E t \in Traders : Fetch200(t)
    \/ ConsumerStep

\* the consumer task is scheduled fairly: the event loop resumes it when the
\* queue is not empty and when a call awaited by execute_trade has returned
SpecConsumer == Init /\ [][NextConsumer]_vars /\ WF_vars(ConsumerStep)

\* execute_copy_trade on every side and grid price
InitCopyTrade ==
    InitPipe /\ InitLimiter /\ InitPricing /\ IdleSizing /\ IdleLifecycle
    /\ IdlePlacing
    /\ IdleSell
    /\ IdleSubmit
    /\ IdleGate
    /\ IdleSpending
    /\ InitCopy

NextCopyTrade ==
    \/ GetCurrentPrice
    \/ \E ok \in BOOLEAN : CalculateParams(ok)
    \/ \E outcome \in PlaceOutcomes : PlaceGtcOrder(outcome)

SpecCopyTrade == InitCopyTrade /\ [][NextCopyTrade]_vars

\* the submissions of validated signals, with every outcome
NextSubmit == \E h \in Hashes, outcome \in PlaceOutcomes : PlaceOrder(h, outcome)

SpecSubmit == Init /\ [][NextSubmit]_vars

\* _manage_order_lifecycle for an accepted order, for every sequence of
\* answers of the exchange
InitOrder ==
    InitPipe /\ InitLimiter /\ IdlePricing /\ IdleSizing /\ InitLifecycle
    /\ IdlePlacing
    /\ IdleCopy
    /\ IdleSell
    /\ IdleSubmit
    /\ IdleGate
    /\ IdleSpending

NextLifecycle ==
    \/ LcTick
    \/ StartTask
    \/ LoopCheck
    \/ PollFailed
    \/ \E order_data \in OrderData : PollStatus(order_data)
    \/ \E ok \in BOOLEAN : CancelOrder(ok)
    \/ LoopRaises
    \/ Refresh

SpecLifecycle == InitOrder /\ [][NextLifecycle]_vars

(***************************************************************************)
(* Properties of the pipeline                                              *)
(***************************************************************************)
PastValidation == consPc \in {"price", "size", "submit"}

QueueHashes ==
    LET pk == SelectSeq(trade_queue, LAMBDA x : ~IsSentinel(x))
    IN [i \in 1..Len(pk) |-> pk[i].transactionHash]

\* C1: for any transaction hash, however often the feed returns the record
\* (in one poll, in later polls, for any trader), the pollers put at most
\* one package carrying that hash on the queue.
C1_Dedup == \A h \in Hashes : Count(enqLog, h) <= 1

\* a hash was enqueued once and a later occurrence of it was skipped
C1_Witness == \E h \in Hashes : h \in replayed /\ Count(enqLog, h) = 1

\* C2: for any transaction hash, post_order is called at most once over the
\* whole run: one call per executed signal, no retry after a failed or
\* skipped submission, no second package for the hash; and the validator
\* rejects any signal whose hash is in processed_signals.
C2_OneSubmit ==
    /\ \A h \in Hashes : Count(submitLog, h) <= 1
    /\ \A h \in processed_signals, sd \in {"BUY", "SELL"} :
          ~ValidateSignal([original_tx_hash |-> h, token_id |-> "T1",
                           side |-> sd, amount_usdc |-> 10,
                           detected_at |-> now],
                          now, processed_signals)

\* the submission for h failed, the feed returned h again, nothing is queued
C2_Witness ==
    \E h \in Hashes :
        /\ Count(submitLog, h) = 1
        /\ h \notin processed_signals
        /\ h \in replayed
        /\ trade_queue = <<>>
        /\ consPc = "get"

\* C5: at most one package is between its dequeue and the return of its
\* execution, and the consumer is at the top of its loop only when none is.
C5_SingleConsumer ==
    /\ Cardinality(inflight) <= 1
    /\ (consPc = "get" => inflight = {})
    /\ (consPc # "get" /\ consPc # "stopped" =>
            inflight = {signal.original_tx_hash})

\* a package waits in the queue while another one is being submitted
C5_Witness ==
    /\ consPc = "submit"
    /\ Cardinality(inflight) = 1
    /\ Len(trade_queue) >= 1

\* C6: packages are executed in the order they were enqueued: the queue
\* always holds the latest enqueued packages in enqueue order, and the
\* executed ones are, in order, among those enqueued before them.
C6_Fifo ==
    LET n == Len(enqLog) - Len(QueueHashes) IN
    /\ n >= 0
    /\ QueueHashes = SubSeq(enqLog, n + 1, Len(enqLog))
    /\ IsSubSeq(execLog, SubSeq(enqLog, 1, n))

\* two packages were enqueued and both were executed
C6_Witness == Len(execLog) = 2 /\ execLog = enqLog

\* C7: _validate_signal rejects every signal with now - detected_at >
\* signal_expiry whatever its other fields are, and a signal that is past
\* validation was not expired when it was validated.
C7_Fresh ==
    /\ \A h \in Hashes \cup {NoHash}, tok \in {"", "T1"},
          sd \in {"", "BUY", "SELL"}, amt \in {0, 10},
          d \in {StartTime, StartTime + TickStep} :
            LET sig == [original_tx_hash |-> h, token_id |-> tok,
                        side |-> sd, amount_usdc |-> amt, detected_at |-> d]
            IN now - d > signal_expiry
                   => ~ValidateSignal(sig, now, processed_signals)
    /\ PastValidation =>
           /\ signal.validatedAt >= signal.detected_at
           /\ signal.validatedAt - signal.detected_at <= signal_expiry

\* a signal with valid fields has just been rejected because it had expired
C7_Witness ==
    /\ consPc = "rejected"
    /\ signal.validatedAt - signal.detected_at > signal_expiry
    /\ signal.token_id # "" /\ signal.side # "" /\ signal.amount_usdc > 0
    /\ signal.original_tx_hash \notin processed_signals

\* C8: a package that waited in the queue for more than signal_expiry seconds
\* after its detection by the poller is rejected, and detected_at is the
\* poller's detection time.
C8_EndToEndFresh ==
    /\ signal # NoSignal => signal.detected_at = signal.enqAt
    /\ PastValidation => signal.dequeuedAt - signal.enqAt <= signal_expiry

(***************************************************************************)
(* Properties of the rate limiter                                          *)
(***************************************************************************)

\* C3: in every reachable state of the limiter, after any sequence of
\* acquire(n) calls with positive n and any interleaving of the callers,
\* 0 <= tokens <= capacity.
C3_TokenBound == 0 <= tokens /\ tokens <= capacity

\* the callers between the lock acquisition and the deduction at line 76
Sleeping == { c \in Callers : callPc[c] = "sleeping" }

\* C4: at most one caller at a time is inside the refill/check/sleep/deduct
\* section, the caller that sleeps holds the lock, and while it sleeps no
\* step changes tokens or last_refill.
C4_MutualExclusion ==
    /\ [](/\ Cardinality(Sleeping) <= 1
          /\ \A c \in Sleeping : lock = c)
    /\ [][\A c \in Callers :
            callPc[c] = "sleeping" /\ callPc'[c] = "sleeping"
                => tokens' = tokens /\ last_refill' = last_refill]_vars

\* a caller waits for the lock while another one sleeps with it, after time
\* enough for a refill has passed
C4_Witness ==
    \E c1 \in Callers, c2 \in Callers :
        /\ callPc[c1] = "sleeping"
        /\ lock = c1
        /\ callPc[c2] = "waiting"
        /\ lockWaiters = <<c2>>
        /\ clock > last_refill

\* the bucket after the refill for the time since last_refill
Refilled == Min(capacity, tokens + (clock - last_refill) * rate)

\* C39: under fair scheduling every acquire(n) call eventually returns,
\* for concurrent callers; a caller that finds tokens >= n after the refill
\* deducts n and returns without sleeping, and a caller that finds fewer
\* sleeps once and then, after a second refill, deducts n and returns
C39_AcquireReturns ==
    /\ \A c \in Callers : (callPc[c] # "idle") ~> (callPc[c] = "idle")
    /\ [][ /\ lastReturn'.k # lastReturn.k =>
                LET who == lastReturn'.caller
                    n == lastReturn'.n
                IN /\ tokens' = Refilled - n
                   /\ callPc'[who] = "idle"
                   /\ IF callPc[who] = "sleeping"
                      THEN lastReturn'.slept /\ n = req[who]
                      ELSE ~lastReturn'.slept /\ Refilled >= n
            /\ \A c \in Callers :
                /\ (callPc[c] # "sleeping" /\ callPc'[c] = "sleeping") =>
                       /\ Refilled < req'[c]
                       /\ tokens' = Refilled
                       /\ lastReturn' = lastReturn
                /\ (callPc[c] = "sleeping" /\ callPc'[c] # "sleeping") =>
                       /\ callPc'[c] = "idle"
                       /\ lastReturn'.caller = c
                       /\ lastReturn'.k # lastReturn.k ]_vars

\* the bucket was emptied and a call returned after a sleep while the other
\* caller waited for the lock
C39_Witness ==
    /\ lastReturn.slept
    /\ tokens = 0
    /\ \E c \in Callers : callPc[c] = "waiting"

\* C40: in any interval of length T (in ticks, T up to MaxInterval) the
\* number of acquire(1) calls that return is at most capacity + rate * T,
\* for concurrent callers and any arrival pattern
C40_PacingBound ==
    \A i \in DOMAIN returnTimes, j \in DOMAIN returnTimes :
        i <= j =>
            j - i + 1 <= capacity + rate * (returnTimes[j] - returnTimes[i])

\* the bound is met: capacity + rate * T calls returned in an interval of
\* T > 0 ticks, the last of them after a sleep
C40_Witness ==
    /\ lastReturn.slept
    /\ lastReturn.n = 1
    /\ \E i \in DOMAIN returnTimes :
           LET j == Len(returnTimes) IN
           /\ returnTimes[j] > returnTimes[i]
           /\ j - i + 1 = capacity + rate * (returnTimes[j] - returnTimes[i])

(***************************************************************************)
(* Properties of pricing and sizing                                        *)
(***************************************************************************)

\* C9: for every trader price of the grid in [0, 5], a returned BUY price
\* lies in [0.001, 0.99] and a returned SELL price in [0.01, 0.99].
C9_PriceClamp ==
    priceResult.state = "price" =>
        /\ priceArgs.side = "BUY" =>
               1 <= priceResult.price /\ priceResult.price <= 990
        /\ priceArgs.side = "SELL" =>
               10 <= priceResult.price /\ priceResult.price <= 990

\* a SELL at trader price 5 came back clamped to 0.99
C9_Witness ==
    /\ priceArgs = [side |-> "SELL", trader_price |-> MaxMilliPrice]
    /\ priceResult = Priced(990)

\* C10: every BUY order the sizer returns has shares >= 5 and notional
\* >= 1, whatever the balances, the price and the order-size limits are.
C10_BuyMinimum ==
    sizerResult.state = "order" =>
        /\ ~RLess(sizerResult.shares, RInt(5))
        /\ ~RLess(sizerResult.size, RInt(1))

\* the sizer has returned
Sized == sizerResult # NotSized

\* C11: the usage ratio that multiplies our balance in BUY sizing is never
\* above the configured maximum usage cap, and so the proportional amount
\* is never above that share of our balance, also when the ratio was first
\* raised to 1% for a large order
C11_UsageCapped ==
    Sized =>
        /\ ~RLess(RMul(sizerArgs.usage_cap, RInt(100)),
                  sizerResult.details.effective_ratio)
        /\ ~RLess(RMul(RInt(sizerArgs.our_balance), sizerArgs.usage_cap),
                  sizerResult.details.proportional_amount)

\* an order above 1000 USDC using less than 1% of the trader's balance (the
\* bump applies), a cap below 1%, and the sizer returned an order
C11_Witness ==
    /\ Sized
    /\ sizerResult.state = "order"
    /\ sizerArgs.amount_usdc > 1000
    /\ sizerArgs.balance_source = "snapshot"
    /\ sizerArgs.amount_usdc * 100 < sizerArgs.trader_balance
    /\ RLess(RMul(sizerArgs.usage_cap, RInt(100)), RInt(1))
    /\ sizerResult.details.effective_ratio
           = RMul(sizerArgs.usage_cap, RInt(100))

\* C12: the notional of every BUY order the sizer returns is at most the
\* trader's own amountUsd
C12_WithinTraderAmount ==
    (Sized /\ sizerResult.state = "order") =>
        ~RLess(RInt(sizerArgs.amount_usdc), sizerResult.size)

\* the spendable balance: all of it in proxy-wallet mode, 90% otherwise
Spendable ==
    IF sizerArgs.wallet_type = "proxy"
    THEN RInt(sizerArgs.our_balance)
    ELSE Rat(sizerArgs.our_balance * 9, 10)

\* C13: every BUY order has an amount within the spendable balance, and the
\* sizer returns no order, with the balance reason, only for a computed
\* amount above the spendable balance
C13_Affordable ==
    Sized =>
        /\ sizerResult.state = "order" =>
               ~RLess(Spendable, sizerResult.size)
        /\ (sizerResult.state = "none"
               /\ sizerResult.reason.kind = "insufficient_balance") =>
               /\ sizerResult.reason.have = Spendable
               /\ RLess(Spendable, sizerResult.reason.need)

\* a local wallet whose whole balance would cover the computed amount while
\* 90% of it does not: no order, with the balance reason
C13_Witness ==
    /\ Sized
    /\ sizerArgs.wallet_type = "local"
    /\ sizerResult.state = "none"
    /\ sizerResult.reason.kind = "insufficient_balance"
    /\ ~RLess(RInt(sizerArgs.our_balance), sizerResult.reason.need)

\* C14: when the trader's USDC balance is unknown (not in the snapshot, or
\* no snapshot provider) or zero, a BUY yields no order
C14_UnknownBalanceNoOrder ==
    (Sized /\ (\/ sizerArgs.balance_source # "snapshot"
               \/ sizerArgs.trader_balance = 0)) =>
        sizerResult.state = "none"

\* the worked BUY scenario: trader balance 1000 in the snapshot, our balance
\* 500, trader amount 100, usage cap 10%, copy ratio 1.0, no limit binding
WorkedScenario ==
    /\ sizerArgs # NoInput
    /\ sizerArgs.balance_source = "snapshot"
    /\ sizerArgs.trader_balance = 1000
    /\ sizerArgs.our_balance = 500
    /\ sizerArgs.amount_usdc = 100
    /\ sizerArgs.usage_cap = Rat(1, 10)
    /\ sizerArgs.copy_ratio = RInt(1)
    /\ sizerArgs.max_order_size >= 50
    /\ sizerArgs.min_order_size <= 50
    /\ sizerArgs.order_price * 5 <= 50 * 1000

\* C26: in the worked BUY scenario (trader balance 1000, our balance 500,
\* trader amount 100, usage cap 10%, copy ratio 1.0, a price with
\* 50/price >= 5, limits not binding) the sizer returns an order of amount 50
\* and shares 50/price
C26_WorkedExample ==
    (Sized /\ WorkedScenario) =>
        /\ sizerResult.state = "order"
        /\ sizerResult.size = RInt(50)
        /\ sizerResult.shares = Rat(50 * 1000, sizerArgs.order_price)

\* the scenario was sized, in either wallet mode
C26_Witness ==
    /\ Sized
    /\ WorkedScenario
    /\ sizerResult.state = "order"
    /\ sizerResult.details.proportional_amount = RInt(50)

\* the balance the sizer takes for the trader, and whether the order is a
\* large one that uses a positive share below 1% of that balance
LargeLowRatio ==
    /\ sizerArgs.amount_usdc > 1000
    /\ GetTraderUsdcBalance(sizerArgs) > 0
    /\ sizerArgs.amount_usdc * 100 < GetTraderUsdcBalance(sizerArgs)

\* C37: in BUY sizing, when the trader's notional is above 1000 and the
\* usage ratio is strictly between 0 and 1%, the ratio is raised to exactly
\* 1% before the usage cap applies (the ratio used is min(1%, cap)); in
\* every other case the ratio is the computed one, amount / balance, before
\* the cap (the ratio used is min(amount / balance, cap), and with a zero
\* ratio nothing is sized)
C37_LargeOrderBump ==
    Sized =>
        LET cap == RMul(sizerArgs.usage_cap, RInt(100))
            trader_balance == GetTraderUsdcBalance(sizerArgs)
        IN IF LargeLowRatio
           THEN sizerResult.details.effective_ratio = RMin(RInt(1), cap)
           ELSE IF trader_balance > 0
           THEN sizerResult.details.effective_ratio
                    = RMin(Rat(sizerArgs.amount_usdc * 100, trader_balance),
                           cap)
           ELSE sizerResult = Skipped(Msg("trader_balance_zero"), NoDetails)

\* an order of 2000 USDC by a trader holding 1,000,000 (0.2%) was sized
\* with the ratio 1% under the default cap of 10%
C37_Witness ==
    /\ Sized
    /\ LargeLowRatio
    /\ sizerArgs.usage_cap = max_trader_usage_cap
    /\ sizerResult.details.effective_ratio = RInt(1)
    /\ sizerResult.details.proportional_amount
           = Rat(sizerArgs.our_balance, 100)

C31_FailedQueryNoOp ==
    [][/\ (lcPc = "sleep" /\ refreshes' # refreshes) =>
             /\ order_record' = order_record
             /\ cancels' = cancels
             /\ lcPc' = "loop"
       /\ (lcPc = "loop" /\ lcPc' # "loop") =>
             /\ order_record' = order_record
             /\ cancels' = cancels
             /\ lcNow - start_time < order_timeout =>
                    /\ lcPc' = "sleep"
                    /\ lcWake' = lcNow + check_interval]_vars

\* a status query failed and the task is sleeping for the next one
C31_Witness ==
    /\ lcPc = "sleep"
    /\ sincePoll = 1
    /\ refreshes > 0
    /\ lcWake > check_interval
    /\ order_record.status = "pending"
    /\ cancels = 0

\* the statuses of an OrderRecord
OrderStatuses == {"pending", "partial_filled", "filled", "cancelled", "expired"}

\* C30: the record of an order in the orders cache has a status among
\* pending, partial_filled, filled, cancelled, expired, whatever raw status
\* the exchange reports for it; a newly created record is pending.
C30_StatusDomain ==
    /\ order_record # NoRecord => order_record.status \in OrderStatuses
    /\ lcPc = "created" => order_record.status = "pending"

(***************************************************************************)
(* Properties of the submission                                            *)
(***************************************************************************)
\* the signals whose submission the exchange accepted with an order id
Accepted ==
    { attempts[i].hash : i \in { j \in DOMAIN attempts :
          /\ attempts[j].outcome.kind = "answered"
          /\ attempts[j].outcome.success
          /\ attempts[j].outcome.orderID } }

\* C33: the orders cache holds a record exactly for the submissions the
\* exchange accepted with an order id, a lifecycle task was started exactly
\* for those, and the processed-signal set holds exactly their hashes: a
\* submission that is refused by a guard, rejected by the exchange or raises
\* changes none of the three.
C33_FailureLeavesState ==
    /\ { orders_cache[i].original_signal : i \in DOMAIN orders_cache } = Accepted
    /\ Len(orders_cache) = Cardinality(Accepted)
    /\ lifecycle_tasks = Accepted
    /\ processed_signals = Accepted

\* a guard refused one submission, the exchange rejected another, a third
\* was answered without an order id or raised, and nothing was recorded
C33_Witness ==
    /\ Len(attempts) = MaxAttempts
    /\ \E i \in DOMAIN attempts : attempts[i].outcome.kind = "refused"
    /\ \E i \in DOMAIN attempts :
          attempts[i].outcome.kind = "answered" /\ ~attempts[i].outcome.success
    /\ \E i \in DOMAIN attempts :
          \/ attempts[i].outcome.kind = "raised"
          \/ attempts[i].outcome.success /\ ~attempts[i].outcome.orderID
    /\ orders_cache = <<>>
    /\ processed_signals = {}

\* the SELL sizer has returned
SellSized == sellResult # NotSized

\* C35: for a SELL signal with our share balance b >= 5 the sizer returns a
\* resting limit (GTC) order of min(b, max(b * sellRatio, 5)) shares, with
\* sellRatio in [0, 1] and 1 when the trader's prior balance is unknown: the
\* share count is in [5, b].
C35_SellRatioSizing ==
    (SellSized /\ sellArgs.our_position_shares >= 5) =>
        LET b == RInt(sellArgs.our_position_shares)
            sellRatio == SellRatio(sellArgs)
        IN /\ ~RLess(sellRatio, RInt(0)) /\ ~RLess(RInt(1), sellRatio)
           /\ sellArgs.trader_total = 0 => sellRatio = RInt(1)
           /\ sellResult.state = "order"
           /\ sellResult.order_type = "GTC"
           /\ sellResult.shares = RMin(b, RMax(RMul(b, sellRatio), RInt(5)))
           /\ ~RLess(sellResult.shares, RInt(5))
           /\ ~RLess(b, sellResult.shares)

\* C36: for a SELL signal with 0 < b < 5 the sizer returns a market order
\* for exactly b shares whatever the sell ratio, with b <= 0 it returns no
\* order for the reason that there is no position, and the order type is
\* MARKET exactly for b < 5.
C36_SellDust ==
    SellSized =>
        /\ (0 < sellArgs.our_position_shares
                /\ sellArgs.our_position_shares < 5) =>
               /\ sellResult.state = "order"
               /\ sellResult.order_type = "MARKET"
               /\ sellResult.shares = RInt(sellArgs.our_position_shares)
        /\ sellArgs.our_position_shares <= 0 =>
               /\ sellResult.state = "none"
               /\ sellResult.reason.kind = "no_position"
        /\ sellResult.state = "order" =>
               (sellResult.order_type = "MARKET"
                   <=> sellArgs.our_position_shares < 5)

(***************************************************************************)
(* Properties of the Data API requests                                     *)
(***************************************************************************)
\* C25: every request sent to the Data API (activity feed, positions,
\* balances), by a poller or during the execution of a signal, is preceded
\* by one RateLimiter.acquire() of the sender that has returned.
C25_AcquireBeforeRequest ==
    \A i \in DOMAIN requests : requests[i].acquired = 1

(***************************************************************************)
(* Properties of the watermark and the hash set                            *)
(***************************************************************************)
\* the packages put on the queue by the step
Enqueued ==
    SubSeq(trade_queue', Len(trade_queue') - (Len(enqLog') - Len(enqLog)) + 1,
           Len(trade_queue'))

\* C27: a trader's watermark (last_fetch_time) never decreases, and no
\* activity whose timestamp is at or below the trader's watermark at the
\* moment it is examined is enqueued: the first package a poll enqueues is
\* above the watermark the poll started with, each further one is above the
\* one before it, which the watermark had reached by then.
C27_MonotonicWatermark ==
    [][/\ \A t \in Traders : last_fetch_time'[t] >= last_fetch_time[t]
       /\ Len(enqLog') > Len(enqLog) =>
             \A i \in DOMAIN Enqueued :
                /\ Enqueued[i].timestamp
                      > last_fetch_time[Enqueued[i].trader] * 1000
                /\ i > 1 => Enqueued[i].timestamp > Enqueued[i-1].timestamp
                /\ Enqueued[i].timestamp
                      <= last_fetch_time'[Enqueued[i].trader] * 1000]_vars

\* one poll enqueued two trades, the older one first, and the watermark is
\* at the newer one
C27_Witness ==
    /\ enqLog = <<"h1", "h2">>
    /\ \E t \in Traders :
          /\ last_fetch_time[t] = TsOf("h2")
          /\ \A u \in Traders \ {t} : last_fetch_time[u] = 0

\* the poller state a response is processed from
PollerState ==
    [ph |-> processed_hashes, lft |-> last_fetch_time, q |-> trade_queue,
     log |-> enqLog, rep |-> replayed, raised |-> FALSE]

\* the step is trader t's poll processing the response acts
Processed(t, acts) ==
    LET st == ProcessActivities(PollerState, acts, t, now) IN
    /\ pollPc[t] = "fetch"
    /\ pollPc'[t] = "loop"
    /\ ~st.raised
    /\ processed_hashes' = st.ph
    /\ last_fetch_time' = st.lft
    /\ trade_queue' = st.q
    /\ enqLog' = st.log

\* a new trade of trader t: inside the look-back window, side BUY or SELL,
\* hash not seen before, above the watermark the poll starts with
NewTrade(a, t) ==
    /\ a.kind.type = "TRADE"
    /\ a.timestamp >= now - aggregation_window
    /\ Upper(a.kind.side) \in {"BUY", "SELL"}
    /\ ~ProcessTradeRaises(a)
    /\ a.transactionHash \notin processed_hashes
    /\ a.timestamp > last_fetch_time[t]

\* C28: when one response for a trader holds several new trades (inside the
\* look-back window, side BUY or SELL, hashes not seen before), each of them
\* is enqueued exactly once by that poll, in whatever order the feed lists
\* them.
C28_NoTradeLostInBatch ==
    [][\A t \in Traders : \A acts \in Batches :
          Processed(t, acts) =>
              \A i \in DOMAIN acts :
                  NewTrade(acts[i], t) =>
                      Count(enqLog', acts[i].transactionHash) = 1]_vars

\* C29: processing the feed of one trader leaves every other trader's
\* watermark unchanged, and a poll skips a record as already seen (line 335)
\* only for a hash that the same trader's polls have processed, which the
\* trader's watermark has then reached.
C29_PerTraderDedup ==
    [][\A t \in Traders :
          (pollPc[t] = "fetch" /\ pollPc'[t] = "loop") =>
              /\ \A u \in Traders \ {t} :
                    last_fetch_time'[u] = last_fetch_time[u]
              /\ \A h \in replayed' \ replayed :
                    TsOf(h) <= last_fetch_time'[t]]_vars

(***************************************************************************)
(* Properties of the consumer                                              *)
(***************************************************************************)
\* a package with hash h that the consumer can log is waiting in the queue
Waiting(h) ==
    \E i \in DOMAIN trade_queue :
        /\ ~IsSentinel(trade_queue[i])
        /\ trade_queue[i].transactionHash = h
        /\ ~LoggingRaises(trade_queue[i])

\* C34: a package whose logging or execution raises does not end the
\* consumer: the task never terminates on its own, the processing flag is
\* clear whenever it waits for the next package, the packages are executed
\* in the order they were enqueued, and every package waiting in the queue
\* is executed, whatever happened to the packages before it.
C34_ConsumerSurvives ==
    /\ [](consPc # "stopped")
    /\ [](consPc = "get" => ~trade_processing_lock)
    /\ [](IsSubSeq(execLog, enqLog))
    /\ \A h \in Hashes : Waiting(h) ~> (Count(execLog, h) > 0)

\* the first of two enqueued packages was dropped when it was logged, the
\* second one was executed after it
C34_Witness ==
    /\ Len(enqLog) = 2
    /\ trade_queue = <<>>
    /\ execLog = <<enqLog[2]>>
    /\ consPc = "get"
    /\ ~trade_processing_lock

(***************************************************************************)
(* Properties of the shutdown                                              *)
(***************************************************************************)
\* hashes of the packages still on the queue
Queued == { trade_queue[i].transactionHash : i \in DOMAIN trade_queue }

\* C21: once the consumer has taken the sentinel and ended, every package
\* that was enqueued ahead of the sentinel (every package ever enqueued that
\* is not still on the queue behind it) was handed to execute_trade, and
\* none is in execution
C21_SentinelDrains ==
    consPc = "stopped" =>
        /\ inflight = {}
        /\ \A i \in DOMAIN enqLog :
              \/ enqLog[i] \in Queued
              \/ Count(execLog, enqLog[i]) > 0

\* C22: once stop() has cleared running, no step adds a hash to
\* processed_hashes, advances a watermark or puts a package on the queue
C22_CleanPollerShutdown ==
    [][(~running /\ stopped) =>
          /\ processed_hashes' = processed_hashes
          /\ last_fetch_time' = last_fetch_time
          /\ enqLog' = enqLog]_vars

(***************************************************************************)
(* Properties of the pollers                                               *)
(***************************************************************************)
\* C19: while running is set no poller task has ended, and a task that
\* leaves a fetch (200, 429, 404, another status, timeout, exception) is at
\* the top of its loop again, after the 5 second sleep in the case of a 429
C19_PollerResilient ==
    /\ [](running => \A t \in Traders : pollPc[t] # "done")
    /\ [][\A t \in Traders :
            /\ (pollPc[t] = "fetch" /\ pollPc'[t] # "fetch")
                   => pollPc'[t] \in {"loop", "backoff"}
            /\ (pollPc[t] = "backoff" /\ pollPc'[t] # "backoff")
                   => pollPc'[t] = "loop"]_vars

\* a poller is in the sleep that follows a 429 while the other one, back
\* from a failed fetch or not, is fetching again, and the service is running
C19_Witness ==
    /\ running
    /\ pollPc["A"] = "backoff"
    /\ pollPc["B"] = "fetch"

\* C20: when every fetch for A fails, B's poller sends requests again and
\* again, and every trade B's poller marks as processed was put on the queue
\* in the same step
C20_Isolation ==
    /\ []<>(pollPc["B"] = "fetch")
    /\ [][\A h \in processed_hashes' \ processed_hashes :
            /\ Count(enqLog', h) = Count(enqLog, h) + 1
            /\ \E i \in DOMAIN trade_queue' :
                  /\ trade_queue'[i].transactionHash = h
                  /\ trade_queue'[i].trader = "B"]_vars

\* A is held in the sleep after a 429 and never had a response, while a
\* trade found by B's poller is on the queue
C20_Witness ==
    /\ pollPc["A"] = "backoff"
    /\ last_fetch_time["A"] = 0
    /\ \E i \in DOMAIN trade_queue : trade_queue[i].trader = "B"

(***************************************************************************)
(* Properties of the order lifecycle                                       *)
(***************************************************************************)
Terminal == {"filled", "cancelled", "expired"}

\* C15: once the cached record of the order is filled, cancelled or expired,
\* no later step of the lifecycle task changes its status
C15_TerminalFrozen ==
    [][order_record.status \in Terminal
          => order_record'.status = order_record.status]_vars

\* C16: when the task has ended after the order timeout elapsed and the
\* order is still pending or partially filled, a cancel was issued
C16_TimeoutCancels ==
    (/\ lcPc = "done"
     /\ lcExit # "exception"
     /\ lcNow - start_time >= order_timeout
     /\ order_record.status \in {"pending", "partial_filled"})
        => cancels > 0

\* C17: whenever the lifecycle task has ended, the snapshots were refreshed
\* after the last status query
C17_RefreshOnExit ==
    lcPc = "done" => (refreshes >= 1 /\ sincePoll >= 1)

\* the task ended after an exception inside the loop that followed an
\* answered status query, and the refresh was made
C17_Witness ==
    /\ lcPc = "done"
    /\ lcExit = "exception"
    /\ order_record.status = "partial_filled"
    /\ sincePoll >= 1

\* C18: the refresh is triggered at most once for the order, and not while
\* the task is still polling
C18_RefreshOnce ==
    /\ refreshes <= 1
    /\ refreshes >= 1 => lcPc = "done"

\* C32: when the lifecycle task of an accepted order has ended, the cached
\* record of the order has a terminal status (filled, cancelled or expired).
C32_ManagedToCompletion ==
    lcPc = "done" => order_record.status \in Terminal

(***************************************************************************)
(* Properties of the submission guards                                     *)
(***************************************************************************)
\* C23: an order handed to the exchange client has a price within
\* [0.001, 0.99] and, for a BUY, at least 5 shares and a notional of at
\* least 1; a call that hands nothing over returns no order id and caches
\* no record
C23_Guards ==
    placeResult # NotPlaced =>
        /\ placeResult.handed =>
              /\ placeArgs.price >= 1 /\ placeArgs.price <= 990
              /\ placeArgs.side = "BUY" =>
                    /\ placeArgs.shares >= 5 * Share
                    /\ ~NotionalBelowMin(placeArgs.shares, placeArgs.price)
        /\ ~placeResult.handed =>
              (~placeResult.order_id /\ ~placeResult.record)

(***************************************************************************)
(* Properties of consecutive orders                                        *)
(***************************************************************************)
\* the spendable part of the cached balance: all of it in proxy-wallet
\* mode, 90% otherwise
SpendLimit ==
    IF walletMode = "proxy" THEN RInt(balance_cache)
    ELSE Rat(balance_cache * 9, 10)

\* C24: the BUY orders sized from one value of the balance cache have a
\* combined notional within the spendable part of that value
C24_NoDoubleSpend ==
    ~RLess(SpendLimit, RSum(sizedOrders))
====
